---------------------------- MODULE Spec2Model ----------------------------
(***************************************************************************)
(* A model of PyQt-builder: the qmake configuration query of               *)
(* QmakeBuilder (src/pyqtbuild/builder.py), the annotation / keyword /      *)
(* signal-grouping hooks of PyQtBuildSystemExtension                        *)
(* (src/pyqtbuild/build_system_extension.py) and the working-directory      *)
(* handling of run_qmake / _run_project_make.                               *)
(*                                                                         *)
(* Text is modelled tokenised: a string is a sequence of pieces, a piece    *)
(* being one of the separator characters ":", "/", ".", " ", a maximal run  *)
(* of decimal digits (a natural number) or a maximal run of other           *)
(* characters (a TLA+ string).                                              *)
(***************************************************************************)
EXTENDS Integers, Sequences, FiniteSets, TLC

VARIABLES
    \* ---- QmakeBuilder: configuration query
    builder_attrs,      \* the names of the attributes set on the builder
    qt_configuration,   \* self.qt_configuration: name -> value
    qt_version,         \* self.qt_version
    qt_version_tag,     \* self.qt_version_tag
    qmake,              \* self.qmake (the option, then the path used)
    spec,               \* self.spec (the option, then the spec used)
    query_output,       \* the lines read from `qmake -query` by the call
    config_exc,         \* how apply_defaults ended
    \* ---- PyQtBuildSystemExtension
    class_ext,          \* class -> its _ClassExtension, or NoExt
    function_ext,       \* function -> its _FunctionExtension, or NoExt
    argument_ext,       \* argument -> its _ArgumentExtension, or NoExt
    release_gil,        \* function -> set_function_release_gil was called
    function_group,     \* group -> the list of functions of the group
    declared,           \* the group of each function declared, in order
    declared_in,        \* function -> the section it was declared in
    section,            \* the primary keyword last accepted for the class
    completed,          \* group -> how often its definition was completed
    errors,             \* the diagnostics reported with parsing_error
    last_call,          \* the last hook called, its arguments and result
    \* ---- the generator: what the parser knows and what is written
    method_code,        \* function -> query_function_has_method_code
    cpp_arguments,      \* function -> get_function_cpp_arguments
    arg_optional,       \* argument -> query_argument_is_optional
    arg_decl,           \* argument -> its C++ declaration
    docstring_auto,     \* group -> its docstring is automatically generated
    written,            \* the items written to the output file, in order
    \* ---- QmakeBuilder: running qmake and make
    cwd,                \* os.getcwd()
    files,              \* the regular files that exist (absolute paths)
    run_result,         \* the last run_qmake/_run_project_make and its end
    \* ---- QmakeBuilder: build_project
    buildables,         \* project.buildables: the kind of each
    make_option,        \* self.make
    build,              \* where build_project is, and how it ended
    build_log           \* what build_project has written and run, in order

config_vars == <<builder_attrs, qt_configuration, qt_version, qt_version_tag,
                 qmake, spec, query_output, config_exc>>

ext_vars == <<class_ext, function_ext, argument_ext, release_gil,
              function_group, declared, declared_in, section, completed,
              errors, last_call>>

gen_vars == <<method_code, cpp_arguments, arg_optional, arg_decl,
              docstring_auto, written>>

run_vars == <<cwd, files, run_result>>

build_vars == <<buildables, make_option, build, build_log>>

vars == <<config_vars, ext_vars, gen_vars, run_vars, build_vars>>

----------------------------------------------------------------------------
(***************************************************************************)
(* Bounds of the model.                                                    *)
(***************************************************************************)

\* Patch levels 0..MaxPatch are enumerated (beside the byte-boundary values).
MaxPatch == 5

\* The functions declared in one run are 1..MaxFunctions, in this order.
MaxFunctions == 3

\* The arguments that carry annotations are 1..MaxArguments.
MaxArguments == 2

\* The integer values of an annotation are -1..MaxAnnotation.
MaxAnnotation == 2

\* A project has at most MaxBuildables buildables.
MaxBuildables == 2

\* At most MaxErrors diagnostics are reported in one run.
MaxErrors == 2

\* function_group_complete_definition is called at most MaxCompletions times
\* on one group.
MaxCompletions == 2

----------------------------------------------------------------------------
(***************************************************************************)
(* Text helpers.                                                           *)
(***************************************************************************)

\* A run of decimal digits, and a run of other characters (or one separator).
N(n) == [k |-> "num", n |-> n, t |-> ""]
W(s) == [k |-> "txt", n |-> 0, t |-> s]

Colon == W(":")
Slash == W("/")
Dot == W(".")
Space == W(" ")
Underscore == W("_")

\* The text of one piece.
PieceText(p) == IF p.k = "num" THEN ToString(p.n) ELSE p.t

\* The text of a tokenised string.
RECURSIVE Text(_)
Text(s) == IF s = <<>> THEN "" ELSE PieceText(Head(s)) \o Text(Tail(s))

\* The position of the first piece of s at or after i equal to c, 0 when
\* there is none.
RECURSIVE FirstIndex(_, _, _)
FirstIndex(s, c, i) ==
    IF i > Len(s) THEN 0
    ELSE IF s[i] = c THEN i
    ELSE FirstIndex(s, c, i + 1)

\* str.strip(): leading and trailing white space removed.
RECURSIVE LStrip(_)
LStrip(s) == IF s # <<>> /\ Head(s) = Space THEN LStrip(Tail(s)) ELSE s

RECURSIVE RStrip(_)
RStrip(s) ==
    IF s # <<>> /\ s[Len(s)] = Space
    THEN RStrip(SubSeq(s, 1, Len(s) - 1))
    ELSE s

Strip(s) == RStrip(LStrip(s))

\* A variant of the split that splits at every ':' (no maxsplit).
RECURSIVE SplitColonAll(_)
SplitColonAll(line) ==
    LET i == FirstIndex(line, Colon, 1)
    IN  IF i = 0 THEN <<line>>
        ELSE <<SubSeq(line, 1, i - 1)>>
                 \o SplitColonAll(SubSeq(line, i + 1, Len(line)))

\* line.split(':', maxsplit=1): at most one split, at the first ':'.
SplitColonOnce(line) ==
    LET i == FirstIndex(line, Colon, 1)
    IN  IF i = 0 THEN <<line>>
        ELSE <<SubSeq(line, 1, i - 1), SubSeq(line, i + 1, Len(line))>>

\* name.replace('/', '_')
ReplaceSlash(name) ==
    [i \in 1..Len(name) |-> IF name[i] = Slash THEN Underscore ELSE name[i]]

\* str.split('.'): split at every '.'.
RECURSIVE SplitDots(_)
SplitDots(s) ==
    LET i == FirstIndex(s, Dot, 1)
    IN  IF i = 0 THEN <<s>>
        ELSE <<SubSeq(s, 1, i - 1)>> \o SplitDots(SubSeq(s, i + 1, Len(s)))

\* int(v) succeeds on a run of decimal digits.
IsInt(v) == Len(v) = 1 /\ v[1].k = "num"
IntOf(v) == v[1].n

----------------------------------------------------------------------------
(***************************************************************************)
(* QmakeBuilder._get_qt_configuration.                                     *)
(***************************************************************************)

\* A mapping with one more item: d[name] = value.
DictSet(d, name, value) ==
    [n \in (DOMAIN d) \cup {name} |-> IF n = name THEN value ELSE d[n]]

EmptyDict == [n \in {} |-> <<>>]

\* How a call ends: normally, or with an exception.
NoExc == [type |-> "none", msg |-> ""]
Raised(type, msg) == [type |-> type, msg |-> msg]

\* The loop over the lines of the query output: the mapping built so far and
\* whether a line was refused.
RECURSIVE ParseLines(_, _)
ParseLines(lines, cfg) ==
    IF lines = <<>> THEN [cfg |-> cfg, exc |-> NoExc]
    ELSE LET line == Strip(Head(lines))
             tokens == SplitColonOnce(line)
         IN  IF Len(tokens) # 2
             THEN [cfg |-> cfg,
                   exc |-> Raised("UserException",
                                  "Unexpected output from qmake")]
             ELSE ParseLines(Tail(lines),
                     DictSet(cfg, Text(ReplaceSlash(tokens[1])), tokens[2]))

\* A packing loop that adds the component before it shifts.
RECURSIVE PackVersionShiftAfter(_, _)
PackVersionShiftAfter(components, acc) ==
    IF components = <<>> THEN [version |-> acc, exc |-> NoExc]
    ELSE IF IsInt(Head(components))
         THEN PackVersionShiftAfter(Tail(components),
                                    (acc + IntOf(Head(components))) * 256)
         ELSE [version |-> acc, exc |-> Raised("ValueError", "int()")]

\* The loop over the components of the version: qt_version <<= 8;
\* qt_version += int(v).  int() raises ValueError after the shift.
RECURSIVE PackVersion(_, _)
PackVersion(components, acc) ==
    IF components = <<>> THEN [version |-> acc, exc |-> NoExc]
    ELSE LET shifted == acc * 256
         IN  IF IsInt(Head(components))
             THEN PackVersion(Tail(components),
                              shifted + IntOf(Head(components)))
             ELSE [version |-> shifted, exc |-> Raised("ValueError", "int()")]

\* The minimum supported Qt version, 0x050600.
MinQtVersion == 329216

\* (major, minor) >= (5, 13) compared field by field: not a tuple comparison.
TupleGEFieldwise(a, b) == a[1] >= b[1] /\ a[2] >= b[2]

\* (major, minor) >= (5, 13): Python compares tuples lexicographically.
TupleGE(a, b) == a[1] > b[1] \/ (a[1] = b[1] /\ a[2] >= b[2])

\* The patch level used in the tag.
TagPatch(major, minor, patch) ==
    IF TupleGE(<<major, minor>>, <<5, 13>>) THEN 0
    ELSE IF <<major, minor>> = <<5, 12>> THEN (IF patch > 4 THEN 4 ELSE patch)
    ELSE patch

\* '{}_{}_{}'.format(major, minor, patch)
FormatTag(major, minor, patch) ==
    ToString(major) \o "_" \o ToString(minor) \o "_" \o ToString(patch)

\* The version tag of a packed version.
VersionTag(version) ==
    LET major == (version \div 65536) % 256
        minor == (version \div 256) % 256
        patch == version % 256
    IN  FormatTag(major, minor, TagPatch(major, minor, patch))

\* A floor check that also refuses the floor itself.
BelowFloorStrict(version) == version <= MinQtVersion

\* if self.qt_version < 0x050600: raise UserException
BelowFloor(version) == version < MinQtVersion

\* The whole of _get_qt_configuration on the lines `output`: the attributes
\* it sets (set |-> their names) and how it ends.  tokens is always a list,
\* so the value of a line is never None and AttributeError is never raised.
GetQtConfiguration(output) ==
    LET parsed == ParseLines(output, EmptyDict)
    IN  IF parsed.exc # NoExc
        THEN [set |-> {"qt_configuration"}, cfg |-> parsed.cfg,
              version |-> 0, tag |-> "", exc |-> parsed.exc]
        ELSE IF "QT_VERSION" \notin DOMAIN parsed.cfg
        THEN [set |-> {"qt_configuration", "qt_version"}, cfg |-> parsed.cfg,
              version |-> 0, tag |-> "",
              exc |-> Raised("KeyError", "QT_VERSION")]
        ELSE LET packed == PackVersion(SplitDots(parsed.cfg["QT_VERSION"]), 0)
             IN  IF packed.exc # NoExc
                 THEN [set |-> {"qt_configuration", "qt_version"},
                       cfg |-> parsed.cfg, version |-> packed.version,
                       tag |-> "", exc |-> packed.exc]
                 ELSE IF BelowFloor(packed.version)
                 THEN [set |-> {"qt_configuration", "qt_version"},
                       cfg |-> parsed.cfg, version |-> packed.version,
                       tag |-> "",
                       exc |-> Raised("UserException",
                                      "Qt v5.6 or later is required")]
                 ELSE [set |-> {"qt_configuration", "qt_version",
                                "qt_version_tag"},
                       cfg |-> parsed.cfg, version |-> packed.version,
                       tag |-> VersionTag(packed.version), exc |-> NoExc]

----------------------------------------------------------------------------
(***************************************************************************)
(* The outputs of `qmake -query` the model enumerates.                     *)
(***************************************************************************)

Majors == {4, 5, 6, 256}
Minors == {0, 5, 6, 12, 13, 255, 256, 262}
Patches == (0..MaxPatch) \cup {255, 256}

\* "M.m.p"
Dotted3(M, m, p) == <<N(M), Dot, N(m), Dot, N(p)>>

VersionValues ==
    {Dotted3(M, m, p) : M \in Majors, m \in Minors, p \in Patches}
    \cup {<<N(5), Dot, N(15)>>,                          \* "5.15"
          <<N(5), Dot, N(15), Dot, N(2), Dot, N(1)>>,     \* "5.15.2.1"
          <<N(5), Dot, W("x"), Dot, N(0)>>,               \* "5.x.0"
          <<N(6), Dot, N(2), Dot>>}                       \* "6.2."

SpecValues == {<<W("macx-xcode")>>, <<W("macx-clang")>>, <<W("win32-g++")>>}

\* The QT_VERSION line (or none) and the QMAKE_SPEC line.
VersionLines ==
    {<<<<W("QT_VERSION"), Colon>> \o v>> : v \in VersionValues} \cup {<<>>}

SpecLines == {<<<<W("QMAKE_SPEC"), Colon>> \o v>> : v \in SpecValues}

\* One more line (or none) of the output.
ExtraLines ==
    {<<>>,
     \* "QT_INSTALL_PREFIX:/usr"
     <<<<W("QT_INSTALL_PREFIX"), Colon, Slash, W("usr")>>>>,
     \* "QT_INSTALL_PREFIX" (no separator)
     <<<<W("QT_INSTALL_PREFIX")>>>>,
     \* "" (an empty line)
     <<<<>>>>,
     \* "QT_INSTALL_PREFIX:C:/Qt" (a Windows path)
     <<<<W("QT_INSTALL_PREFIX"), Colon, W("C"), Colon, Slash, W("Qt")>>>>,
     \* "a:b:c:"
     <<<<W("a"), Colon, W("b"), Colon, W("c"), Colon>>>>,
     \* " QT_INSTALL_PREFIX/get:/usr " (an old style name, white space)
     <<<<Space, W("QT_INSTALL_PREFIX"), Slash, W("get"), Colon, Slash,
         W("usr"), Space>>>>,
     \* "QT_VERSION:4.8.7" (a second report of the version)
     <<<<W("QT_VERSION"), Colon, N(4), Dot, N(8), Dot, N(7)>>>>}

\* The versions combined with every other choice.
FewVersionLines ==
    {<<<<W("QT_VERSION"), Colon>> \o Dotted3(5, 15, 2)>>,
     <<<<W("QT_VERSION"), Colon>> \o Dotted3(5, 5, 1)>>,
     <<>>}

\* Every version with one spec and no other line; a few versions with every
\* spec and every other line, before or after; a version and no spec.
QueryOutputs ==
    {v \o <<<<W("QMAKE_SPEC"), Colon, W("macx-clang")>>>> : v \in VersionLines}
    \cup {v \o s \o e :
             v \in FewVersionLines, s \in SpecLines, e \in ExtraLines}
    \cup {e \o v \o s :
             v \in FewVersionLines, s \in SpecLines, e \in ExtraLines}
    \cup (FewVersionLines \ {<<>>})

----------------------------------------------------------------------------
(***************************************************************************)
(* QmakeBuilder.apply_defaults.                                            *)
(***************************************************************************)

\* Python's None as the value of an option.
NoneValue == <<[k |-> "none", n |-> 0, t |-> ""]>>

\* Absolute paths of qmake, one with a space in it.
QmakePaths ==
    {<<Slash, W("usr"), Slash, W("bin"), Slash, W("qmake")>>,
     <<Slash, W("opt"), Slash, W("my"), Space, W("qt"), Slash, W("qmake")>>}

\* quote(path): quotes added if the path contains a space.
Quote(path) ==
    IF \E i \in 1..Len(path) : path[i] = Space
    THEN <<W("\"")>> \o path \o <<W("\"")>>
    ELSE path

\* A default that is the spec as reported.
DefaultSpecAsReported(reported) == reported

\* if self.spec == 'macx-xcode': self.spec = 'macx-clang'
DefaultSpec(reported) ==
    IF reported = <<W("macx-xcode")>> THEN <<W("macx-clang")>> ELSE reported

\* The state of a builder whose options were read and on which
\* apply_defaults was not yet called.
InitConfig ==
    /\ builder_attrs = {}
    /\ qt_configuration = EmptyDict
    /\ qt_version = 0
    /\ qt_version_tag = ""
    /\ qmake \in {NoneValue} \cup QmakePaths
    /\ spec \in {NoneValue, <<W("macx-xcode")>>}
    /\ query_output = <<>>
    /\ config_exc = NoExc

\* apply_defaults(tool).  found is what _find_exe('qmake') returns, is_exe
\* what _is_exe(self.qmake) returns and output the lines `qmake -query`
\* prints.  All paths are absolute, so os.path.abspath() changes nothing.
ApplyDefaults(tool, found, is_exe, output) ==
    /\ builder_attrs = {}
    /\ config_exc = NoExc
    /\ IF tool = "sdist"
       THEN /\ builder_attrs' = {"qt_version", "qt_version_tag"}
            /\ qt_version' = 0
            /\ qt_version_tag' = ""
            /\ config_exc' = NoExc
            /\ UNCHANGED <<qt_configuration, qmake, spec, query_output>>
       ELSE IF qmake = NoneValue /\ found = NoneValue
       THEN /\ config_exc' = Raised("PyProjectOptionException",
                                    "specify a working qmake or add it to PATH")
            /\ UNCHANGED <<builder_attrs, qt_configuration, qt_version,
                           qt_version_tag, qmake, spec, query_output>>
       ELSE IF qmake # NoneValue /\ ~is_exe
       THEN /\ config_exc' = Raised("PyProjectOptionException",
                                    "is not a working qmake")
            /\ UNCHANGED <<builder_attrs, qt_configuration, qt_version,
                           qt_version_tag, qmake, spec, query_output>>
       ELSE LET r == GetQtConfiguration(output)
            IN  /\ qmake' = Quote(IF qmake = NoneValue THEN found ELSE qmake)
                /\ query_output' = output
                /\ builder_attrs' = r.set
                /\ qt_configuration' = r.cfg
                /\ qt_version' = r.version
                /\ qt_version_tag' = r.tag
                /\ IF r.exc # NoExc
                   THEN config_exc' = r.exc /\ spec' = spec
                   ELSE IF spec # NoneValue
                   THEN config_exc' = NoExc /\ spec' = spec
                   ELSE IF "QMAKE_SPEC" \notin DOMAIN r.cfg
                   THEN /\ config_exc' = Raised("KeyError", "QMAKE_SPEC")
                        /\ spec' = spec
                   ELSE /\ config_exc' = NoExc
                        /\ spec' = DefaultSpec(r.cfg["QMAKE_SPEC"])
    /\ UNCHANGED <<ext_vars, gen_vars, run_vars, build_vars>>

----------------------------------------------------------------------------
(***************************************************************************)
(* PyQtBuildSystemExtension: the entities of the generator and their       *)
(* extension data.  An optional value is <<>> (None) or <<v>>.             *)
(***************************************************************************)

Classes == {"K"}
Namespaces == {"NS"}
Scopes == Classes \cup Namespaces

\* A function group is the overloads of one name in one scope.
Groups == {<<"K", "a">>, <<"K", "b">>, <<"NS", "g">>}

Functions == 1..MaxFunctions
Arguments == 1..MaxArguments

\* _ClassExtension()
ClassExtensionDefault ==
    [functions_are_signals |-> FALSE, flags |-> 0, flags_enums |-> <<>>,
     interface |-> <<>>, is_qobject |-> FALSE, no_qmetaobject |-> FALSE,
     signal_data |-> <<>>]

\* _FunctionExtension()
FunctionExtensionDefault == [is_signal |-> FALSE]

\* _ArgumentExtension()
ArgumentExtensionDefault == [scopes_stripped |-> 0]

\* get_extension_data(entity, factory): the store in which the entity has
\* extension data, created by the factory when it had none.
WithExtension(store, entity, default) ==
    IF store[entity] = <<>> THEN [store EXCEPT ![entity] = <<default>>]
    ELSE store

\* query_scope_is_class(scope)
ScopeIsClass(scope) == scope \in Classes

\* The result of a hook.
Call(op, args, ret, exc) == [op |-> op, args |-> args, ret |-> ret, exc |-> exc]

\* A hook is called while no exception has ended the run.
Running == last_call.exc = "none"

InitExt ==
    /\ class_ext = [k \in Classes |-> <<>>]
    /\ function_ext = [f \in Functions |-> <<>>]
    /\ argument_ext = [a \in Arguments |-> <<>>]
    /\ release_gil = [f \in Functions |-> FALSE]
    /\ function_group = [g \in Groups |-> <<>>]
    /\ declared = <<>>
    /\ declared_in = [f \in Functions |-> "none"]
    /\ section = "none"
    /\ completed = [g \in Groups |-> 0]
    /\ errors = <<>>
    /\ last_call = Call("none", <<>>, "None", "none")

\* The C++ declaration of an argument: whether it is const, the scoped name
\* of its type and what follows it ("", "&" or "*").
ArgDecl(const, scopes, ind) == [const |-> const, scopes |-> scopes, ind |-> ind]

\* The generator before anything was parsed or written.
InitGen ==
    /\ method_code = [f \in Functions |-> FALSE]
    /\ cpp_arguments = [f \in Functions |-> <<>>]
    /\ arg_optional = [a \in Arguments |-> FALSE]
    /\ arg_decl = [a \in Arguments |-> ArgDecl(FALSE, <<"int">>, "")]
    /\ docstring_auto = [g \in Groups |-> TRUE]
    /\ written = <<>>

----------------------------------------------------------------------------
(***************************************************************************)
(* argument_parse_annotation                                               *)
(***************************************************************************)

\* A check that lets 0 through.
ScopesStrippedRejectedNegative(scopes_stripped) == scopes_stripped < 0

\* if scopes_stripped <= 0: the value is refused.
ScopesStrippedRejected(scopes_stripped) == scopes_stripped <= 0

AnnotationNames == {"ScopesStripped", "PyQtFlag"}
AnnotationValues == (-1)..MaxAnnotation

\* argument_parse_annotation(argument, name, raw_value, location), value
\* being what parse_integer_annotation makes of raw_value.
ArgumentParseAnnotation(argument, name, value) ==
    /\ Running
    /\ IF name = "ScopesStripped"
       THEN /\ IF ScopesStrippedRejected(value)
               THEN /\ Len(errors) < MaxErrors
                    /\ errors' = Append(errors,
                                   "/ScopesStripped/ must be greater than 0")
                    /\ argument_ext' = argument_ext
               ELSE /\ errors' = errors
                    /\ argument_ext' =
                         [WithExtension(argument_ext, argument,
                                        ArgumentExtensionDefault)
                            EXCEPT ![argument] =
                                <<[@[1] EXCEPT !.scopes_stripped = value]>>]
            /\ last_call' = Call("argument_parse_annotation",
                                 <<argument, name, value>>, "True", "none")
       ELSE /\ last_call' = Call("argument_parse_annotation",
                                 <<argument, name, value>>, "False", "none")
            /\ UNCHANGED <<errors, argument_ext>>
    /\ UNCHANGED <<class_ext, function_ext, release_gil, function_group,
                   declared, declared_in, section, completed>>
    /\ UNCHANGED <<config_vars, gen_vars, run_vars, build_vars>>

----------------------------------------------------------------------------
(***************************************************************************)
(* class_get_access_specifier_keywords, class_parse_access_specifier       *)
(***************************************************************************)

\* The keywords the extension has the parser recognise.
ExtensionAccessKeywords == {"signals", "Q_SIGNALS", "slots", "Q_SLOTS"}

StandardAccessKeywords == {"public", "protected", "private"}

\* The primary and secondary keywords the parser can hand over ("None": no
\* secondary keyword).
PrimaryKeywords == StandardAccessKeywords \cup ExtensionAccessKeywords
SecondaryKeywords == {"None"} \cup ExtensionAccessKeywords

\* A decision that has the functions of every accepted section be signals.
AccessDecisionAllSignals(primary, secondary) ==
    IF primary \in {"public", "protected", "private"}
    THEN IF secondary # "None" /\ secondary \notin {"slots", "Q_SLOTS"}
         THEN [kind |-> "rejected", is_signal |-> FALSE, ret |-> "None"]
         ELSE [kind |-> "bound", is_signal |-> TRUE, ret |-> primary]
    ELSE IF primary \in {"signals", "Q_SIGNALS"}
    THEN IF secondary # "None"
         THEN [kind |-> "rejected", is_signal |-> FALSE, ret |-> "None"]
         ELSE [kind |-> "bound", is_signal |-> TRUE, ret |-> "public"]
    ELSE [kind |-> "unbound", is_signal |-> FALSE, ret |-> "None"]

\* What class_parse_access_specifier decides before it touches the class:
\* "return None", or is_signal bound to a value, or is_signal left unbound.
AccessDecision(primary, secondary) ==
    IF primary \in {"public", "protected", "private"}
    THEN IF secondary # "None" /\ secondary \notin {"slots", "Q_SLOTS"}
         THEN [kind |-> "rejected", is_signal |-> FALSE, ret |-> "None"]
         ELSE [kind |-> "bound", is_signal |-> FALSE, ret |-> primary]
    ELSE IF primary \in {"signals", "Q_SIGNALS"}
    THEN IF secondary # "None"
         THEN [kind |-> "rejected", is_signal |-> FALSE, ret |-> "None"]
         ELSE [kind |-> "bound", is_signal |-> TRUE, ret |-> "public"]
    ELSE [kind |-> "unbound", is_signal |-> FALSE, ret |-> "None"]

\* class_parse_access_specifier(klass, primary, secondary).  With is_signal
\* unbound the extension data is fetched (and created) before the
\* assignment reads is_signal and raises UnboundLocalError.
ClassParseAccessSpecifier(klass, primary, secondary) ==
    LET d == AccessDecision(primary, secondary)
        created == WithExtension(class_ext, klass, ClassExtensionDefault)
    IN  /\ Running
        /\ IF d.kind = "rejected"
           THEN /\ last_call' = Call("class_parse_access_specifier",
                                     <<klass, primary, secondary>>,
                                     "None", "none")
                /\ UNCHANGED <<class_ext, section>>
           ELSE IF d.kind = "unbound"
           THEN /\ class_ext' = created
                /\ last_call' = Call("class_parse_access_specifier",
                                     <<klass, primary, secondary>>,
                                     "None", "UnboundLocalError")
                /\ UNCHANGED section
           ELSE /\ class_ext' =
                      [created EXCEPT ![klass] =
                          <<[@[1] EXCEPT !.functions_are_signals = d.is_signal]>>]
                /\ section' = primary
                /\ last_call' = Call("class_parse_access_specifier",
                                     <<klass, primary, secondary>>,
                                     d.ret, "none")
        /\ UNCHANGED <<function_ext, argument_ext, release_gil,
                       function_group, declared, declared_in, completed,
                       errors>>
        /\ UNCHANGED <<config_vars, gen_vars, run_vars, build_vars>>

----------------------------------------------------------------------------
(***************************************************************************)
(* class_parse_annotation                                                  *)
(***************************************************************************)

\* The annotations of a class the parser can hand over, and for each the
\* values parse_integer_annotation, parse_string_list_annotation,
\* parse_string_annotation and parse_boolean_annotation make of its raw
\* value.
ClassAnnotationNames ==
    {"PyQtFlag", "PyQtFlagsEnums", "PyQtInterface", "PyQtNoQMetaObject",
     "Abstract"}

ClassAnnotationValues(name) ==
    IF name = "PyQtFlag" THEN 0..MaxAnnotation
    ELSE IF name = "PyQtFlagsEnums" THEN {<<"Qt::Alignment">>, <<"A", "B">>}
    ELSE IF name = "PyQtInterface" THEN {"org.qt.Iface"}
    ELSE BOOLEAN

\* extension.flags |= 1
FlagsOrOne(flags) == IF flags % 2 = 1 THEN flags ELSE flags + 1

\* class_parse_annotation(klass, name, raw_value, location), value being
\* what the parse of raw_value gives; pyqt_major is
\* self._pyqt_major_version.
ClassParseAnnotation(klass, name, value, pyqt_major) ==
    LET created == WithExtension(class_ext, klass, ClassExtensionDefault)
        parsed(field_values) ==
            /\ class_ext' = [created EXCEPT ![klass] = <<field_values>>]
            /\ last_call' = Call("class_parse_annotation", <<klass, name>>,
                                 "True", "none")
        extension == created[klass][1]
    IN  /\ Running
        /\ IF pyqt_major = 5 /\ name = "PyQtFlag"
           THEN parsed([extension EXCEPT !.flags = value])
           ELSE IF pyqt_major = 5 /\ name = "PyQtFlagsEnums"
           THEN parsed([extension EXCEPT !.flags_enums = <<value>>,
                                         !.flags = FlagsOrOne(@)])
           ELSE IF name = "PyQtInterface"
           THEN parsed([extension EXCEPT !.interface = <<value>>])
           ELSE IF name = "PyQtNoQMetaObject"
           THEN parsed([extension EXCEPT !.no_qmetaobject = value])
           ELSE /\ class_ext' = class_ext
                /\ last_call' = Call("class_parse_annotation",
                                     <<klass, name>>, "False", "none")
        /\ UNCHANGED <<function_ext, argument_ext, release_gil,
                       function_group, declared, declared_in, section,
                       completed, errors>>
        /\ UNCHANGED <<config_vars, gen_vars, run_vars, build_vars>>

----------------------------------------------------------------------------
(***************************************************************************)
(* function_parse_keyword, function_complete_parse                         *)
(***************************************************************************)

\* The function being parsed: the next one to be declared.
NextFunction == Len(declared) + 1

FunctionKeywords == {"Q_SIGNAL", "Q_SLOT", "virtual"}

\* function_parse_keyword(function, keyword)
FunctionParseKeyword(function, keyword) ==
    /\ Running
    /\ function = NextFunction
    /\ function \in Functions
    /\ IF keyword = "Q_SIGNAL"
       THEN /\ function_ext' =
                   [WithExtension(function_ext, function,
                                  FunctionExtensionDefault)
                      EXCEPT ![function] = <<[@[1] EXCEPT !.is_signal = TRUE]>>]
            /\ last_call' = Call("function_parse_keyword", <<>>, "True", "none")
       ELSE /\ function_ext' = function_ext
            /\ last_call' = Call("function_parse_keyword", <<>>,
                                 IF keyword = "Q_SLOT" THEN "True" ELSE "False",
                                 "none")
    /\ UNCHANGED <<class_ext, argument_ext, release_gil, function_group,
                   declared, declared_in, section, completed, errors>>
    /\ UNCHANGED <<config_vars, gen_vars, run_vars, build_vars>>

\* class_extension is not None and class_extension.functions_are_signals
InSignalSection(class_extension) ==
    class_extension # <<>> /\ class_extension[1].functions_are_signals

\* function_complete_parse(function, scope); the parser then has the
\* function in the group of its name, whose definition is not yet complete.
FunctionCompleteParse(function, group) ==
    LET scope == group[1]
    IN  /\ Running
        /\ function = NextFunction
        /\ function \in Functions
        /\ completed[group] = 0
        /\ IF ScopeIsClass(scope) /\ InSignalSection(class_ext[scope])
           THEN /\ function_ext' =
                       [WithExtension(function_ext, function,
                                      FunctionExtensionDefault)
                          EXCEPT ![function] =
                              <<[@[1] EXCEPT !.is_signal = TRUE]>>]
                /\ release_gil' = [release_gil EXCEPT ![function] = TRUE]
           ELSE UNCHANGED <<function_ext, release_gil>>
        /\ declared' = Append(declared, group)
        /\ declared_in' =
               [declared_in EXCEPT ![function] =
                   IF ScopeIsClass(scope) THEN section ELSE "none"]
        /\ function_group' =
               [function_group EXCEPT ![group] = Append(@, function)]
        /\ last_call' = Call("function_complete_parse", <<>>, "None", "none")
        /\ UNCHANGED <<class_ext, argument_ext, section, completed, errors>>
        /\ UNCHANGED <<config_vars, gen_vars, run_vars, build_vars>>

----------------------------------------------------------------------------
(***************************************************************************)
(* function_group_complete_definition                                      *)
(***************************************************************************)

\* function_extension is not None and function_extension.is_signal
IsSignal(function) ==
    function_ext[function] # <<>> /\ function_ext[function][1].is_signal

\* A removal that drops the head of the list whatever is asked for.
RemoveHead(list, x) == Tail(list)

\* list.remove(x): the list without the first item equal to x.
RemoveFirst(list, x) ==
    LET i == FirstIndex(list, x, 1)
    IN  SubSeq(list, 1, i - 1) \o SubSeq(list, i + 1, Len(list))

\* for signal in signal_group: function_group.remove(signal)
RECURSIVE RemoveEach(_, _)
RemoveEach(list, signals) ==
    IF signals = <<>> THEN list
    ELSE RemoveEach(RemoveFirst(list, Head(signals)), Tail(signals))

\* The signals of a group taken last first.
SignalGroupOfReversed(list) ==
    LET s == SelectSeq(list, IsSignal)
    IN  [i \in 1..Len(s) |-> s[Len(s) + 1 - i]]

\* The loop that collects the signals of the group, in the order of the list.
SignalGroupOf(list) == SelectSeq(list, IsSignal)

\* has_non_signals after the loop.
HasNonSignals(list) == \E i \in 1..Len(list) : ~IsSignal(list[i])

\* A test that lets an empty signal group through.
SignalGroupAppendedAlways(signal_group) == TRUE

\* if signal_group:
SignalGroupAppended(signal_group) == signal_group # <<>>

\* function_group_complete_definition(function_group, scope)
FunctionGroupCompleteDefinition(group) ==
    LET scope == group[1]
        list == function_group[group]
        signal_group == SignalGroupOf(list)
        created == WithExtension(class_ext, scope, ClassExtensionDefault)
        data == IF created[scope][1].signal_data = <<>> THEN <<>>
                ELSE created[scope][1].signal_data[1]
    IN  /\ Running
        /\ list # <<>> \/ completed[group] > 0
        /\ completed[group] < MaxCompletions
        /\ IF ScopeIsClass(scope) /\ SignalGroupAppended(signal_group)
           THEN /\ class_ext' =
                      [created EXCEPT ![scope] =
                          <<[@[1] EXCEPT !.signal_data =
                                <<Append(data,
                                     [signal_group |-> signal_group,
                                      has_non_signals |-> HasNonSignals(list)])
                                >>]>>]
                /\ function_group' =
                      [function_group EXCEPT ![group] =
                           RemoveEach(list, signal_group)]
           ELSE UNCHANGED <<class_ext, function_group>>
        /\ completed' = [completed EXCEPT ![group] = @ + 1]
        /\ last_call' = Call("function_group_complete_definition",
                             <<>>, "None", "none")
        /\ UNCHANGED <<function_ext, argument_ext, release_gil, declared,
                       declared_in, section, errors>>
        /\ UNCHANGED <<config_vars, gen_vars, run_vars, build_vars>>

----------------------------------------------------------------------------
(***************************************************************************)
(* _pyqt_write_signal_table_entry.  What is written is kept as items: the  *)
(* kind of the line and the texts interpolated into it.                    *)
(***************************************************************************)

Item(kind, f) == [kind |-> kind, f |-> f]

\* sep.join(parts)
RECURSIVE JoinWith(_, _)
JoinWith(parts, sep) ==
    IF parts = <<>> THEN ""
    ELSE IF Len(parts) = 1 THEN parts[1]
    ELSE parts[1] \o sep \o JoinWith(Tail(parts), sep)

\* get_function_cpp_name(function): the name of the group it was declared in.
FunctionCppName(function) == declared[function][2]

\* strip: extension.scopes_stripped of an argument with extension data, -1
\* of one without.
ArgStrip(arg) ==
    IF argument_ext[arg] # <<>> THEN argument_ext[arg][1].scopes_stripped
    ELSE -1

\* get_argument_cpp_decl(arg, klass, strip): the declaration with `strip`
\* leading scopes of the type removed (the name itself is always kept);
\* strip=-1 removes none.
ArgumentCppDecl(arg, strip) ==
    LET d == arg_decl[arg]
        n == Len(d.scopes)
        k == IF strip <= 0 THEN 0 ELSE IF strip >= n THEN n - 1 ELSE strip
    IN  [d EXCEPT !.scopes = SubSeq(d.scopes, k + 1, n)]

\* arg_decl.endswith('&') and '*' in arg_decl
EndsWithAmp(ind) == ind \in {"&", "*&"}
HasStar(ind) == ind \in {"*", "*&"}

\* The normalisation of a signal argument: a leading 'const ' is removed if
\* the declaration ends with '&' or holds no '*', and then a trailing '&'.
NormaliseArgument(d) ==
    IF d.const /\ (EndsWithAmp(d.ind) \/ ~HasStar(d.ind))
    THEN [d EXCEPT !.const = FALSE,
                   !.ind = IF EndsWithAmp(d.ind)
                           THEN (IF HasStar(d.ind) THEN "*" ELSE "")
                           ELSE d.ind]
    ELSE d

\* The text of a declaration.
DeclText(d) ==
    (IF d.const THEN "const " ELSE "") \o JoinWith(d.scopes, "::") \o d.ind

\* An unstripped signature asked for when two arguments differ in depth.
NeedUnstrippedWhenDepthsDiffer(signal) ==
    \E i, j \in 1..Len(cpp_arguments[signal]) :
        ArgStrip(cpp_arguments[signal][i]) # ArgStrip(cpp_arguments[signal][j])

\* need_unstripped after the loop: an argument has extension data.
NeedUnstripped(signal) ==
    \E i \in 1..Len(cpp_arguments[signal]) :
        argument_ext[cpp_arguments[signal][i]] # <<>>

\* _pyqt_write_signal_table_entry(output, signal, klass, docstring_ref,
\* auto_docstring, pymethoddef, emitter_helper): the entry written; first
\* holds docstring_ref, auto_docstring and pymethoddef.
SignalTableEntry(signal, first, emitter_helper) ==
    LET args == cpp_arguments[signal]
        stripped ==
            [i \in 1..Len(args) |->
                DeclText(NormaliseArgument(
                    ArgumentCppDecl(args[i], ArgStrip(args[i]))))]
        unstripped ==
            [i \in 1..Len(args) |-> DeclText(ArgumentCppDecl(args[i], -1))]
        unstripped_args ==
            IF NeedUnstripped(signal)
            THEN "|(" \o JoinWith(unstripped, ",") \o ")"
            ELSE ""
    IN  Item("entry",
             <<FunctionCppName(signal), JoinWith(stripped, ","),
               unstripped_args, first.docstring_ref,
               IF first.auto_docstring THEN "1" ELSE "0",
               first.pymethoddef, emitter_helper>>)

----------------------------------------------------------------------------
(***************************************************************************)
(* _pyqt_class_write_signals_table                                         *)
(***************************************************************************)

\* prefix = 'pyqt_signals_'
Prefix == "pyqt_signals_"

\* get_class_fq_cpp_name(klass): the scoped name of the class, in parts.
ClassFqCppName(klass) == <<"NS", klass>>

\* The reference write_function_group_bindings(signal_group, klass, output,
\* prefix=prefix) and get_function_group_bindings(signal_group, klass)
\* return: the name of the bindings of the group.
FunctionGroupBindings(prefix, signal_group, klass) ==
    prefix \o "meth_" \o klass \o "_" \o FunctionCppName(signal_group[1])

\* What write_function_group_docstring(signal_group, klass, output,
\* prefix=prefix) returns: the reference to the docstring and whether it was
\* generated automatically.
FunctionGroupDocstring(prefix, signal_group, klass) ==
    [ref |-> prefix \o "doc_" \o klass \o "_"
                 \o FunctionCppName(signal_group[1]),
     auto |-> docstring_auto[<<klass, FunctionCppName(signal_group[1])>>]]

\* A test that asks for a helper for %MethodCode only.
NeedEmitterHelperForMethodCode(signal) == method_code[signal]

\* need_emitter_helper: the signal has %MethodCode or an optional argument.
NeedEmitterHelper(signal) ==
    \/ method_code[signal]
    \/ \E i \in 1..Len(cpp_arguments[signal]) :
           arg_optional[cpp_arguments[signal][i]]

\* call_ref of a signal of a group.
CallRef(signal, signal_group, klass) ==
    IF NeedEmitterHelper(signal)
    THEN FunctionGroupBindings(Prefix, signal_group, klass)
    ELSE "SIP_NULLPTR"

\* emitter_helpers after the first loop: a reference for each signal of
\* each group, in the order of signal_data.
RECURSIVE EmitterHelpers(_, _)
EmitterHelpers(data, klass) ==
    IF data = <<>> THEN <<>>
    ELSE [i \in 1..Len(Head(data).signal_group) |->
             CallRef(Head(data).signal_group[i], Head(data).signal_group,
                     klass)]
         \o EmitterHelpers(Tail(data), klass)

\* docstrings after the first loop: one for each group.
Docstrings(data, klass) ==
    [g \in 1..Len(data) |->
        FunctionGroupDocstring(Prefix, data[g].signal_group, klass)]

\* What the first loop has written: the bindings of the group for each of
\* its signals that needs a helper, then the docstring of the group.
RECURSIVE HelperItems(_, _)
HelperItems(data, klass) ==
    IF data = <<>> THEN <<>>
    ELSE LET signal_group == Head(data).signal_group
             needing == SelectSeq(signal_group, NeedEmitterHelper)
         IN  [i \in 1..Len(needing) |->
                 Item("bindings",
                      <<FunctionGroupBindings(Prefix, signal_group, klass)>>)]
             \o <<Item("docstring",
                       <<FunctionGroupDocstring(Prefix, signal_group,
                                                klass).ref>>)>>
             \o HelperItems(Tail(data), klass)

\* Values that are kept for every overload.
AfterFirstOverloadKept(first) == first

\* docstring_ref = non_signal_pymethoddef = 'SIP_NULLPTR'; auto_docstring = 0
AfterFirstOverload(first) ==
    [docstring_ref |-> "SIP_NULLPTR", auto_docstring |-> FALSE,
     pymethoddef |-> "SIP_NULLPTR"]

\* The inner loop over the signals of a group; signal_nr counts from 1.
RECURSIVE GroupEntries(_, _, _, _)
GroupEntries(signals, first, emitter_helpers, signal_nr) ==
    IF signals = <<>> THEN <<>>
    ELSE <<SignalTableEntry(Head(signals), first, emitter_helpers[signal_nr])>>
         \o GroupEntries(Tail(signals), AfterFirstOverload(first),
                         emitter_helpers, signal_nr + 1)

\* The outer loop over signal_data; group_nr (signal_group_nr) counts from 1.
RECURSIVE TableEntries(_, _, _, _, _, _)
TableEntries(data, klass, docstrings, emitter_helpers, group_nr, signal_nr) ==
    IF group_nr > Len(data) THEN <<>>
    ELSE LET signal_group == data[group_nr].signal_group
             first ==
                 [docstring_ref |-> docstrings[group_nr].ref,
                  auto_docstring |-> docstrings[group_nr].auto,
                  pymethoddef |->
                      IF data[group_nr].has_non_signals
                      THEN FunctionGroupBindings("", signal_group, klass)
                      ELSE "SIP_NULLPTR"]
         IN  GroupEntries(signal_group, first, emitter_helpers, signal_nr)
             \o TableEntries(data, klass, docstrings, emitter_helpers,
                             group_nr + 1,
                             signal_nr + Len(signal_group))

\* table_name
TableName(klass) == Prefix \o JoinWith(ClassFqCppName(klass), "_")

\* _pyqt_class_write_signals_table(output, klass, extension, pyqt_major):
\* what it writes (it returns '&' + table_name).
SignalsTable(klass, data, pyqt_major) ==
    HelperItems(data, klass)
    \o <<Item("table", <<ToString(pyqt_major), TableName(klass)>>)>>
    \o TableEntries(data, klass, Docstrings(data, klass),
                    EmitterHelpers(data, klass), 1, 1)
    \o <<Item("terminator",
              <<"SIP_NULLPTR", "SIP_NULLPTR", "0", "SIP_NULLPTR",
                "SIP_NULLPTR">>)>>

----------------------------------------------------------------------------
(***************************************************************************)
(* class_write_extension_structure                                         *)
(***************************************************************************)

\* self._pyqt_major_version: builder.qt_version >> 16
PyqtMajorVersion == qt_version \div 65536

\* A meta-object given for every QObject.
StaticMetaObjectOfQObject(extension, klass) ==
    IF extension.is_qobject
    THEN "&" \o JoinWith(ClassFqCppName(klass), "::") \o "::staticMetaObject"
    ELSE "SIP_NULLPTR"

\* static_metaobject
StaticMetaObject(extension, klass) ==
    IF extension.is_qobject /\ ~extension.no_qmetaobject
    THEN "&" \o JoinWith(ClassFqCppName(klass), "::") \o "::staticMetaObject"
    ELSE "SIP_NULLPTR"

\* qt_interface
QtInterface(extension) ==
    IF extension.interface # <<>>
    THEN "\"" \o extension.interface[1] \o "\""
    ELSE "SIP_NULLPTR"

\* class_write_extension_structure(klass, output, structure_name)
ClassWriteExtensionStructure(klass, structure_name) ==
    /\ Running
    /\ IF class_ext[klass] = <<>>
       THEN /\ written' = written
            /\ last_call' = Call("class_write_extension_structure",
                                 <<klass, structure_name>>, "False", "none")
       ELSE LET extension == class_ext[klass][1]
                pyqt_major == PyqtMajorVersion
                table == IF extension.signal_data # <<>>
                         THEN SignalsTable(klass, extension.signal_data[1],
                                           pyqt_major)
                         ELSE <<>>
                qt_signals == IF extension.signal_data # <<>>
                              THEN "&" \o TableName(klass)
                              ELSE "SIP_NULLPTR"
            IN  /\ written' =
                       written \o table
                       \o <<Item("structure",
                                 <<ToString(pyqt_major), structure_name>>)>>
                       \o (IF pyqt_major = 5
                           THEN <<Item("field", <<ToString(extension.flags)>>)>>
                           ELSE <<>>)
                       \o <<Item("field", <<StaticMetaObject(extension, klass)>>),
                            Item("field", <<qt_signals>>),
                            Item("field", <<QtInterface(extension)>>),
                            Item("end", <<>>)>>
                /\ last_call' = Call("class_write_extension_structure",
                                     <<klass, structure_name>>, "True", "none")
    /\ UNCHANGED <<class_ext, function_ext, argument_ext, release_gil,
                   function_group, declared, declared_in, section, completed,
                   errors>>
    /\ UNCHANGED <<method_code, cpp_arguments, arg_optional, arg_decl,
                   docstring_auto>>
    /\ UNCHANGED <<config_vars, run_vars, build_vars>>

----------------------------------------------------------------------------
(***************************************************************************)
(* QmakeBuilder.run_qmake and QmakeBuilder._run_project_make.  A path is   *)
(* the sequence of its components; a directory or file of the file system  *)
(* is named by its path from the root.                                     *)
(***************************************************************************)

\* The directories that exist.
Dirs == {<<"proj">>, <<"proj", "build">>, <<"proj", "build", "QtCore">>}

\* project.build_dir, relative to the directory sip-build is started in.
BuildDir == <<"build">>

\* The .pro files run_qmake is called with.
ProNames == {<<"proj.pro">>,                    \* no directory part
             <<"build", "proj.pro">>,
             <<"QtCore", "QtCore.pro">>,
             <<"build", "QtCore", "QtCore.pro">>}

\* The makefile_name arguments ("None": the default).
MakefileNames == {"None", "Makefile.test"}

\* os.path.split(path): the directory part ('' is <<>>) and the last
\* component.
PathSplit(path) == <<SubSeq(path, 1, Len(path) - 1), path[Len(path)]>>

\* The directory a relative path names in the current directory.
Resolve(current, path) == current \o path

\* What the external command does: its exit status, and whether it leaves
\* the file it is meant to make.
CommandOutcomes == [ok : BOOLEAN, makes : BOOLEAN]

\* _find_make(): the name of make for the platform and the spec.
MakeName(py_platform) ==
    IF py_platform = "win32"
    THEN (IF spec = <<W("win32-g++")>> THEN "mingw32-make" ELSE "nmake")
    ELSE "make"

Platforms == {"win32", "darwin", "linux"}

\* The builder after a successful apply_defaults, started in the project
\* directory.
InitRun ==
    /\ cwd = <<"proj">>
    /\ files \in SUBSET {<<"proj", "build", "Makefile">>,
                         <<"proj", "Makefile">>}
    /\ run_result = [op |-> "none", entry_cwd |-> <<"proj">>, args |-> <<>>,
                     target |-> <<>>, made |-> FALSE, fatal |-> TRUE,
                     ret |-> "None", exc |-> "none"]

\* How a call ended: the directory it was entered in, the command line it
\* ran (<<>> when it ran none), the file the command was to make, whether
\* the command made it, whether a failure of the command was fatal, and the
\* value returned or the exception raised.
RunResult(op, entry, args, target, made, fatal, ret, exc) ==
    [op |-> op, entry_cwd |-> entry, args |-> args, target |-> target,
     made |-> made, fatal |-> fatal, ret |-> ret, exc |-> exc]

\* A removal that leaves the file where it is.
RemoveFileKept(fs, fname) == fs

\* _remove_file(fname): the file is removed if it exists.
RemoveFile(fs, fname) == fs \ {fname}

\* run_qmake(pro_name, makefile_name, fatal, recursive); out is what qmake
\* does.  project.run_command raises UserException on a failed command when
\* fatal is set.  os.chdir(cwd) is reached only on the way to `return True`:
\* `raise` and `return False` leave the directory of the .pro file current.
RunQmake(pro_name, makefile_name, fatal, recursive, out) ==
    LET pro_dir == PathSplit(pro_name)[1]
        pro_file == PathSplit(pro_name)[2]
        target == Resolve(cwd, pro_dir)
        mf_name == IF makefile_name = "None" THEN "Makefile" ELSE makefile_name
        args == <<Text(qmake)>>
                \o (IF spec # qt_configuration["QMAKE_SPEC"]
                    THEN <<"-spec", Text(spec)>> ELSE <<>>)
                \o (IF makefile_name # "None"
                    THEN <<"-o", makefile_name>> ELSE <<>>)
                \o (IF recursive THEN <<"-recursive">> ELSE <<>>)
                \o <<pro_file>>
    IN  IF pro_dir # <<>> /\ target \notin Dirs
        THEN \* os.chdir(pro_dir) raises
             /\ run_result' = RunResult("run_qmake", cwd, <<>>, <<>>, FALSE,
                                        fatal, "None", "FileNotFoundError")
             /\ UNCHANGED <<cwd, files>>
        ELSE LET here == IF pro_dir # <<>> THEN target ELSE cwd
                 mf == here \o <<mf_name>>
                 removed == RemoveFile(files, mf)
                 after == IF out.makes THEN removed \cup {mf} ELSE removed
             IN  /\ files' = after
                 /\ IF ~out.ok /\ fatal
                    THEN /\ cwd' = here
                         /\ run_result' = RunResult("run_qmake", cwd, args,
                                                    mf, out.makes, fatal,
                                                    "None", "UserException")
                    ELSE IF mf \notin after
                    THEN /\ cwd' = here
                         /\ run_result' =
                                RunResult("run_qmake", cwd, args, mf, out.makes,
                                    fatal,
                                    IF fatal THEN "None" ELSE "False",
                                    IF fatal THEN "UserException" ELSE "none")
                    ELSE /\ cwd' = cwd
                         /\ run_result' = RunResult("run_qmake", cwd, args,
                                                    mf, out.makes, fatal,
                                                    "True", "none")

\* The step of the builder that calls run_qmake.
RunQmakeCall(pro_name, makefile_name, fatal, recursive, out) ==
    /\ RunQmake(pro_name, makefile_name, fatal, recursive, out)
    /\ UNCHANGED <<config_vars, ext_vars, gen_vars>>

\* _run_project_make(install); found is whether _find_exe finds make on
\* PATH and ok the exit status of make.  project.run_command is fatal here,
\* and when it raises os.chdir(saved_cwd) is not reached.
RunProjectMake(install, py_platform, found, ok) ==
    LET make == MakeName(py_platform)
        args == <<make>> \o (IF install THEN <<"install">> ELSE <<>>)
        target == Resolve(cwd, BuildDir)
    IN  /\ IF ~found
           THEN /\ run_result' = RunResult("_run_project_make", cwd, <<>>,
                                           <<>>, FALSE, TRUE,
                                           "None", "UserException")
                /\ cwd' = cwd
           ELSE IF target \notin Dirs
           THEN /\ run_result' = RunResult("_run_project_make", cwd, <<>>,
                                           <<>>, FALSE, TRUE,
                                           "None", "FileNotFoundError")
                /\ cwd' = cwd
           ELSE IF ~ok
           THEN /\ run_result' = RunResult("_run_project_make", cwd, args,
                                           <<>>, FALSE, TRUE,
                                           "None", "UserException")
                /\ cwd' = target
           ELSE /\ run_result' = RunResult("_run_project_make", cwd, args,
                                           <<>>, FALSE, TRUE,
                                           "None", "none")
                /\ cwd' = cwd
        /\ UNCHANGED files
        /\ UNCHANGED <<config_vars, ext_vars, gen_vars>>

\* The executables run_make is called for.
ExeNames == {"qtdetail"}

\* platform_exe: the platform specific name of the executable, a path
\* relative to the current directory.
PlatformExe(py_platform, exe, debug) ==
    IF py_platform = "win32"
    THEN (IF debug THEN <<"debug", exe \o ".exe">>
          ELSE <<"release", exe \o ".exe">>)
    ELSE IF py_platform = "darwin"
    THEN <<exe \o ".app", "Contents", "MacOS", exe>>
    ELSE <<".", exe>>

\* makefile_target: the target given to make (<<>>: none).
MakefileTarget(py_platform, debug) ==
    IF py_platform = "win32"
    THEN (IF debug THEN <<"debug">> ELSE <<"release">>)
    ELSE <<>>

\* The file a relative path names in the current directory ('.' names the
\* directory it is in).
ResolveFile(current, path) ==
    current \o SelectSeq(path, LAMBDA c : c # ".")

\* os.path.join(...): the text of a relative path.
RECURSIVE JoinPath(_)
JoinPath(path) ==
    IF Len(path) = 1 THEN path[1]
    ELSE path[1] \o "/" \o JoinPath(Tail(path))

\* run_make(exe, makefile_name, debug, fatal); found is whether _find_exe
\* finds make on PATH and out what make does.  _find_make raises
\* UserException when make is not found, whatever fatal is, after the
\* executable was removed; project.run_command raises UserException on a
\* failed command when fatal is set.
RunMake(exe, makefile_name, debug, fatal, py_platform, found, out) ==
    LET platform_exe == PlatformExe(py_platform, exe, debug)
        exe_file == ResolveFile(cwd, platform_exe)
        removed == RemoveFile(files, exe_file)
        after == IF out.makes THEN removed \cup {exe_file} ELSE removed
        args == <<MakeName(py_platform), "-f", makefile_name>>
                \o MakefileTarget(py_platform, debug)
    IN  /\ IF ~found
           THEN /\ files' = removed
                /\ run_result' = RunResult("run_make", cwd, <<>>, exe_file,
                                           FALSE, fatal, "None",
                                           "UserException")
           ELSE /\ files' = after
                /\ IF ~out.ok /\ fatal
                   THEN run_result' = RunResult("run_make", cwd, args,
                                                exe_file, out.makes, fatal,
                                                "None", "UserException")
                   ELSE run_result' = RunResult("run_make", cwd, args,
                                                exe_file, out.makes, fatal,
                                                IF exe_file \in after
                                                THEN JoinPath(platform_exe)
                                                ELSE "None",
                                                "none")
        /\ cwd' = cwd
        /\ UNCHANGED <<config_vars, ext_vars, gen_vars>>

----------------------------------------------------------------------------
(***************************************************************************)
(* QmakeBuilder.build_project, a step at a time: an iteration of the loop  *)
(* over the buildables, the writing of the inventory and of the top-level  *)
(* .pro file, the run of qmake and the run of make.                        *)
(***************************************************************************)

\* The kinds of buildable: a BuildableModule (shared or static), a plain
\* Buildable, and any other sub-class of Buildable.
BuildableKinds == {"module", "static_module", "buildable", "other"}

\* buildable.name of the i-th buildable.
BuildableName(i) == "mod" \o ToString(i)

\* Where build_project is: pc is "idle" (not called), "loop" (at buildable
\* i), "qmake", "make", "done" or "failed" (exc raised).
BuildAt(pc, i, exc) == [pc |-> pc, i |-> i, exc |-> exc]

\* A builder on which build_project was not called.
InitBuild ==
    /\ buildables = <<>>
    /\ make_option = TRUE
    /\ build = BuildAt("idle", 1, "none")
    /\ build_log = <<>>

\* 'linux' in self.spec
LinuxSpec == spec \in {<<W("linux-g++")>>, <<W("linux-clang")>>}

\* The files _generate_module_pro_file writes for the i-th buildable: the
\* .exp file for a shared module on Linux, and the .pro file.
ModuleFiles(i, static) ==
    LET dir == Resolve(cwd, BuildDir \o <<BuildableName(i)>>)
    IN  (IF LinuxSpec /\ ~static
         THEN {dir \o <<BuildableName(i) \o ".exp">>} ELSE {})
        \cup {dir \o <<BuildableName(i) \o ".pro">>}

\* One iteration of the loop over project.buildables.
BuildBuildable ==
    /\ build.pc = "loop"
    /\ build.i <= Len(buildables)
    /\ LET kind == buildables[build.i]
       IN  IF kind \in {"module", "static_module"}
           THEN /\ files' = files \cup ModuleFiles(build.i,
                                                    kind = "static_module")
                /\ build_log' = Append(build_log, "module_pro")
                /\ build' = BuildAt("loop", build.i + 1, "none")
           ELSE IF kind = "buildable"
           THEN /\ files' = files
                /\ build_log' = Append(build_log, "installables")
                /\ build' = BuildAt("loop", build.i + 1, "none")
           ELSE /\ files' = files
                /\ build_log' = build_log
                /\ build' = BuildAt("failed", build.i, "UserException")
    /\ UNCHANGED <<cwd, run_result, buildables, make_option>>
    /\ UNCHANGED <<config_vars, ext_vars, gen_vars>>

\* After the loop: the inventory is written, then the top-level .pro file.
BuildTopLevel ==
    /\ build.pc = "loop"
    /\ build.i > Len(buildables)
    /\ files' = files \cup {Resolve(cwd, BuildDir \o <<"inventory.txt">>),
                             Resolve(cwd, BuildDir \o <<"proj.pro">>)}
    /\ build_log' = build_log \o <<"inventory", "top_pro">>
    /\ build' = BuildAt("qmake", build.i, "none")
    /\ UNCHANGED <<cwd, run_result, buildables, make_option>>
    /\ UNCHANGED <<config_vars, ext_vars, gen_vars>>

\* A build that runs make whatever the option is.
AfterQmakeAlwaysMake(make) == "make"

\* if self.make: self._run_project_make()
AfterQmake(make) == IF make THEN "make" ELSE "done"

\* self.run_qmake(pro_name, recursive=True); out is what qmake does.
BuildRunQmake(out) ==
    /\ build.pc = "qmake"
    /\ RunQmakeCall(BuildDir \o <<"proj.pro">>, "None", TRUE, TRUE, out)
    /\ build_log' = IF run_result'.args # <<>>
                    THEN Append(build_log, "qmake") ELSE build_log
    /\ build' = IF run_result'.exc # "none"
                THEN BuildAt("failed", build.i, run_result'.exc)
                ELSE BuildAt(AfterQmake(make_option), build.i, "none")
    /\ UNCHANGED <<buildables, make_option>>

\* self._run_project_make(); found is whether make is on PATH and ok the
\* exit status of make.
BuildRunMake(py_platform, found, ok) ==
    /\ build.pc = "make"
    /\ RunProjectMake(FALSE, py_platform, found, ok)
    /\ build_log' = IF run_result'.args # <<>>
                    THEN Append(build_log, "make") ELSE build_log
    /\ build' = IF run_result'.exc # "none"
                THEN BuildAt("failed", build.i, run_result'.exc)
                ELSE BuildAt("done", build.i, "none")
    /\ UNCHANGED <<buildables, make_option>>

----------------------------------------------------------------------------
(***************************************************************************)
(* The specifications.                                                     *)
(***************************************************************************)

\* A builder on which apply_defaults('build') succeeded: qmake reported
\* Qt 5.12.5 and the spec macx-xcode; the spec option was not given or was
\* win32-g++.
ConfiguredOutput ==
    <<<<W("QT_VERSION"), Colon>> \o Dotted3(5, 12, 5),
      <<W("QMAKE_SPEC"), Colon, W("macx-xcode")>>>>

ConfiguredWith(spec_option) ==
    LET r == GetQtConfiguration(ConfiguredOutput)
    IN  /\ builder_attrs = r.set
        /\ qt_configuration = r.cfg
        /\ qt_version = r.version
        /\ qt_version_tag = r.tag
        /\ qmake = <<Slash, W("usr"), Slash, W("bin"), Slash, W("qmake")>>
        /\ spec = IF spec_option = NoneValue
                  THEN DefaultSpec(r.cfg["QMAKE_SPEC"])
                  ELSE spec_option
        /\ query_output = ConfiguredOutput
        /\ config_exc = NoExc

ConfiguredBuilder == ConfiguredWith(NoneValue)

\* The builder at rest in the project directory.
IdleRun ==
    /\ cwd = <<"proj">>
    /\ files = {}
    /\ run_result = [op |-> "none", entry_cwd |-> <<"proj">>, args |-> <<>>,
                     target |-> <<>>, made |-> FALSE, fatal |-> TRUE,
                     ret |-> "None", exc |-> "none"]

\* ---- the configuration step of a builder
ConfigInit == InitConfig /\ InitExt /\ InitGen /\ IdleRun /\ InitBuild

\* apply_defaults is called once on a builder.
ConfigNext ==
    /\ builder_attrs = {}
    /\ config_exc = NoExc
    /\ \E tool \in {"sdist", "build"},
          found \in {NoneValue, <<Slash, W("usr"), Slash, W("qmake")>>},
          is_exe \in BOOLEAN, output \in QueryOutputs :
           ApplyDefaults(tool, found, is_exe, output)

ConfigSpec == ConfigInit /\ [][ConfigNext]_vars

\* ---- the annotations of the arguments
ArgInit == ConfiguredBuilder /\ InitExt /\ InitGen /\ IdleRun /\ InitBuild

ArgNext ==
    \E a \in Arguments, n \in AnnotationNames, v \in AnnotationValues :
        ArgumentParseAnnotation(a, n, v)

ArgSpec == ArgInit /\ [][ArgNext]_vars

\* ---- the parse of a class: access specifiers and function keywords
AccessInit == ConfiguredBuilder /\ InitExt /\ InitGen /\ IdleRun /\ InitBuild

AccessNext ==
    \/ \E k \in Classes, p \in PrimaryKeywords, s \in SecondaryKeywords :
           ClassParseAccessSpecifier(k, p, s)
    \/ \E f \in Functions, kw \in FunctionKeywords :
           FunctionParseKeyword(f, kw)

AccessSpec == AccessInit /\ [][AccessNext]_vars

\* ---- the parse of the functions and the completion of their groups
GroupAccessInputs ==
    {<<"public", "None">>, <<"signals", "None">>, <<"signals", "slots">>}

ExtInit == ConfiguredBuilder /\ InitExt /\ InitGen /\ IdleRun /\ InitBuild

ExtNext ==
    \/ \E k \in Classes, a \in GroupAccessInputs :
           ClassParseAccessSpecifier(k, a[1], a[2])
    \/ \E f \in Functions, g \in Groups : FunctionCompleteParse(f, g)
    \/ \E g \in Groups : FunctionGroupCompleteDefinition(g)

ExtSpec == ExtInit /\ [][ExtNext]_vars

\* ---- the parse of the overloads of one method of a class, with function
\* keywords
KeywordInit == ConfiguredBuilder /\ InitExt /\ InitGen /\ IdleRun /\ InitBuild

KeywordNext ==
    \/ \E k \in Classes, p \in {"public", "signals"} :
           ClassParseAccessSpecifier(k, p, "None")
    \/ \E f \in Functions, kw \in FunctionKeywords :
           FunctionParseKeyword(f, kw)
    \/ \E f \in Functions : FunctionCompleteParse(f, <<"K", "a">>)
    \/ FunctionGroupCompleteDefinition(<<"K", "a">>)

KeywordSpec == KeywordInit /\ [][KeywordNext]_vars

\* ---- the generation of the extension structure of a parsed class
\* A builder on which apply_defaults('build') succeeded with the given query
\* output and no spec option.
ConfiguredFrom(query) ==
    LET r == GetQtConfiguration(query)
    IN  /\ builder_attrs = r.set
        /\ qt_configuration = r.cfg
        /\ qt_version = r.version
        /\ qt_version_tag = r.tag
        /\ qmake = <<Slash, W("usr"), Slash, W("bin"), Slash, W("qmake")>>
        /\ spec = DefaultSpec(r.cfg["QMAKE_SPEC"])
        /\ query_output = query
        /\ config_exc = NoExc

\* qmake of Qt 6.2.0.
Qt6Output ==
    <<<<W("QT_VERSION"), Colon>> \o Dotted3(6, 2, 0),
      <<W("QMAKE_SPEC"), Colon, W("macx-clang")>>>>

\* The annotations of a class: /PyQtFlag/ (PyQt5 only), /PyQtInterface/,
\* /PyQtNoQMetaObject/, and whether it is a QObject.
ClassAnnotations(flags, interface, is_qobject, no_qmetaobject) ==
    [flags |-> flags, interface |-> interface, is_qobject |-> is_qobject,
     no_qmetaobject |-> no_qmetaobject]

NoAnnotations == ClassAnnotations(0, <<>>, FALSE, FALSE)

\* The extension state after the body of class K was parsed: decl is the
\* group of each function declared, signals the functions that are signals,
\* specifiers whether the body has access specifiers (the signals are then
\* in signals: sections, and are marked Q_SIGNAL otherwise) and annotations
\* what the annotations of the class and class_complete_definition have set.
\* A class without access specifier and annotation has no extension data.
ParsedClass(decl, signals, specifiers, annotations) ==
    LET sec(f) == IF ~specifiers THEN "none"
                  ELSE IF f \in signals THEN "signals" ELSE "public"
        last == IF decl = <<>> THEN "none" ELSE sec(Len(decl))
    IN  /\ declared = decl
        /\ function_ext =
               [f \in Functions |->
                   IF f \in signals THEN <<[is_signal |-> TRUE]>> ELSE <<>>]
        /\ release_gil = [f \in Functions |-> specifiers /\ f \in signals]
        /\ function_group =
               [g \in Groups |->
                   SelectSeq([i \in 1..Len(decl) |-> i],
                             LAMBDA f : decl[f] = g)]
        /\ declared_in =
               [f \in Functions |-> IF f > Len(decl) THEN "none" ELSE sec(f)]
        /\ section = last
        /\ class_ext =
               [k \in Classes |->
                   IF last = "none" /\ annotations = NoAnnotations THEN <<>>
                   ELSE <<[ClassExtensionDefault EXCEPT
                             !.functions_are_signals = (last = "signals"),
                             !.flags = annotations.flags,
                             !.interface = annotations.interface,
                             !.is_qobject = annotations.is_qobject,
                             !.no_qmetaobject = annotations.no_qmetaobject]>>]
        /\ completed = [g \in Groups |-> 0]
        /\ errors = <<>>
        /\ last_call = Call("none", <<>>, "None", "none")

\* The groups of class K.
ClassGroups == {g \in Groups : g[1] = "K"}

\* The declarations of an argument.
ArgDecls ==
    {ArgDecl(FALSE, <<"int">>, ""),
     ArgDecl(TRUE, <<"Qt", "Key">>, ""),
     ArgDecl(TRUE, <<"NS", "K", "Mode">>, "&"),
     ArgDecl(TRUE, <<"QObject">>, "*"),
     ArgDecl(TRUE, <<"NS", "K">>, "*&")}

\* Function 1 has the arguments 1..MaxArguments, the others have none.
SomeArguments ==
    [f \in Functions |->
        IF f = 1 THEN [i \in 1..MaxArguments |-> i] ELSE <<>>]

\* The signals and overloads of a class vary: MaxFunctions functions in the
\* groups of the class, any of them signals, with %MethodCode or optional
\* arguments.
TableInit ==
    /\ ConfiguredBuilder
    /\ \E decl \in [1..MaxFunctions -> ClassGroups], signals \in SUBSET Functions :
           ParsedClass(decl, signals, TRUE, NoAnnotations)
    /\ argument_ext = [a \in Arguments |-> <<>>]
    /\ method_code \in {[f \in Functions |-> f \in m] : m \in {{}, {1}, {2}}}
    /\ cpp_arguments = SomeArguments
    /\ arg_optional \in [Arguments -> BOOLEAN]
    /\ arg_decl = [a \in Arguments |-> ArgDecl(FALSE, <<"int">>, "")]
    /\ docstring_auto \in {[g \in Groups |-> TRUE],
                           [g \in Groups |-> g[2] = "a"]}

\* The arguments of one signal vary: their declarations and their
\* /ScopesStripped/ annotations.
EntryInit ==
    /\ ConfiguredBuilder
    /\ ParsedClass(<<<<"K", "a">>>>, {1}, TRUE, NoAnnotations)
    /\ argument_ext \in
           [Arguments -> {<<>>} \cup {<<[scopes_stripped |-> v]>> :
                                         v \in 1..MaxAnnotation}]
    /\ method_code = [f \in Functions |-> FALSE]
    /\ cpp_arguments = SomeArguments
    /\ arg_optional = [a \in Arguments |-> FALSE]
    /\ arg_decl \in [Arguments -> ArgDecls]
    /\ docstring_auto = [g \in Groups |-> TRUE]

\* The class varies: its annotations, whether it has a signal, whether its
\* body has access specifiers, and the version of Qt (/PyQtFlag/ being
\* recognised for PyQt5 only).
StructureInit ==
    /\ \E major \in {5, 6} :
           /\ IF major = 5 THEN ConfiguredBuilder ELSE ConfiguredFrom(Qt6Output)
           /\ \E decl \in {<<>>, <<<<"K", "a">>>>},
                 signals \in SUBSET {1},
                 specifiers \in BOOLEAN,
                 flags \in IF major = 5 THEN {0, 1} ELSE {0},
                 interface \in {<<>>, <<"org.qt.Iface">>},
                 is_qobject \in BOOLEAN, no_qmetaobject \in BOOLEAN :
                  /\ signals \subseteq 1..Len(decl)
                  /\ ParsedClass(decl, signals, specifiers,
                         ClassAnnotations(flags, interface, is_qobject,
                                          no_qmetaobject))
    /\ argument_ext = [a \in Arguments |-> <<>>]
    /\ method_code = [f \in Functions |-> FALSE]
    /\ cpp_arguments = SomeArguments
    /\ arg_optional = [a \in Arguments |-> FALSE]
    /\ arg_decl = [a \in Arguments |-> ArgDecl(FALSE, <<"int">>, "")]
    /\ docstring_auto = [g \in Groups |-> TRUE]

WriteInit ==
    /\ TableInit \/ EntryInit \/ StructureInit
    /\ written = <<>>
    /\ IdleRun
    /\ InitBuild

\* Every group with a function was completed: the class was parsed.
ClassParsed == \A f \in 1..Len(declared) : completed[declared[f]] >= 1

\* The definitions of the groups are completed, then the structure of the
\* class is written, once.
WriteNext ==
    \/ /\ last_call.op # "class_write_extension_structure"
       /\ \E g \in ClassGroups : FunctionGroupCompleteDefinition(g)
    \/ /\ last_call.op # "class_write_extension_structure"
       /\ ClassParsed
       /\ \E k \in Classes : ClassWriteExtensionStructure(k, "sipExtension_K")

WriteSpec == WriteInit /\ [][WriteNext]_vars

\* ---- the annotations of a class, for Qt 5 and for Qt 6
AnnotationInit ==
    /\ ConfiguredBuilder \/ ConfiguredFrom(Qt6Output)
    /\ InitExt
    /\ InitGen
    /\ IdleRun
    /\ InitBuild

AnnotationNext ==
    \E k \in Classes, name \in ClassAnnotationNames :
        \E value \in ClassAnnotationValues(name) :
            ClassParseAnnotation(k, name, value, PyqtMajorVersion)

AnnotationSpec == AnnotationInit /\ [][AnnotationNext]_vars

\* ---- the builder running qmake and make
RunInit ==
    /\ \E s \in {NoneValue, <<W("win32-g++")>>} : ConfiguredWith(s)
    /\ InitExt
    /\ InitGen
    /\ InitRun
    /\ InitBuild

RunNext ==
    \/ \E p \in ProNames, m \in MakefileNames, fatal \in BOOLEAN,
          recursive \in BOOLEAN, out \in CommandOutcomes :
           RunQmakeCall(p, m, fatal, recursive, out) /\ UNCHANGED build_vars
    \/ \E install \in BOOLEAN, pl \in Platforms, found \in BOOLEAN,
          ok \in BOOLEAN :
           RunProjectMake(install, pl, found, ok) /\ UNCHANGED build_vars

RunSpec == RunInit /\ [][RunNext]_vars

\* ---- build_project on a configured builder
\* The buildables of the project: at most MaxBuildables, of any kind.
BuildableLists ==
    UNION {[1..n -> BuildableKinds] : n \in 0..MaxBuildables}

BuildInit ==
    /\ \E s \in {NoneValue, <<W("win32-g++")>>, <<W("linux-g++")>>} :
           ConfiguredWith(s)
    /\ InitExt
    /\ InitGen
    /\ InitRun
    /\ buildables \in BuildableLists
    /\ make_option \in BOOLEAN
    /\ build = BuildAt("loop", 1, "none")
    /\ build_log = <<>>

BuildNext ==
    \/ BuildBuildable
    \/ BuildTopLevel
    \/ \E out \in CommandOutcomes : BuildRunQmake(out)
    \/ \E pl \in Platforms, found \in BOOLEAN, ok \in BOOLEAN :
           BuildRunMake(pl, found, ok)

BuildSpec == BuildInit /\ [][BuildNext]_vars

\* ---- the builder making a test executable in the build directory: qmake
\* is run on its .pro file, then make on the makefile
MakeInit ==
    /\ \E s \in {NoneValue, <<W("win32-g++")>>} : ConfiguredWith(s)
    /\ InitExt
    /\ InitGen
    /\ cwd = <<"proj", "build">>
    /\ files \in SUBSET {<<"proj", "build", "Makefile">>,
                         <<"proj", "build", "qtdetail">>}
    /\ run_result = [op |-> "none", entry_cwd |-> <<"proj", "build">>,
                     args |-> <<>>, target |-> <<>>, made |-> FALSE,
                     fatal |-> TRUE, ret |-> "None", exc |-> "none"]
    /\ InitBuild

MakeNext ==
    \/ \E m \in {"None"}, fatal \in BOOLEAN, out \in CommandOutcomes :
           RunQmakeCall(<<"qtdetail.pro">>, m, fatal, FALSE, out)
               /\ UNCHANGED build_vars
    \/ \E e \in ExeNames, m \in {"Makefile"},
          debug \in BOOLEAN, fatal \in BOOLEAN, pl \in Platforms,
          found \in BOOLEAN, out \in CommandOutcomes :
           RunMake(e, m, debug, fatal, pl, found, out)
               /\ UNCHANGED build_vars

MakeSpec == MakeInit /\ [][MakeNext]_vars

----------------------------------------------------------------------------
(***************************************************************************)
(* Properties of the configuration step (ConfigSpec).                      *)
(***************************************************************************)

\* apply_defaults has run qmake -query.
Queried == query_output # <<>>

UnexpectedOutput == Raised("UserException", "Unexpected output from qmake")
VersionTooOld == Raised("UserException", "Qt v5.6 or later is required")

CountColons(line) == Cardinality({i \in 1..Len(line) : line[i] = Colon})

\* The line as read, and its parts before and after its first ':'.
Stripped(i) == Strip(query_output[i])
ColonAt(l) ==
    CHOOSE j \in 1..Len(l) : l[j] = Colon /\ \A k \in 1..(j - 1) : l[k] # Colon
NameText(l) == Text(ReplaceSlash(SubSeq(l, 1, ColonAt(l) - 1)))
ValueOf(l) == SubSeq(l, ColonAt(l) + 1, Len(l))

\* The first line without a ':' (one past the end when there is none).
FirstColonless ==
    LET bad == {i \in 1..Len(query_output) : CountColons(Stripped(i)) = 0}
    IN  IF bad = {} THEN Len(query_output) + 1
        ELSE CHOOSE i \in bad : \A j \in bad : i <= j

\* C1 as stated: a line of the query output that does not hold exactly one
\* ':' (none, or two or more) is a fatal UserException, and only lines with
\* exactly one ':' are stored in qt_configuration.
C1_LineWithoutExactlyOneColonIsFatal ==
    Queried =>
        /\ (\E i \in 1..Len(query_output) : CountColons(Stripped(i)) # 1)
               => config_exc = UnexpectedOutput
        /\ \A n \in DOMAIN qt_configuration :
               CountColons(qt_configuration[n]) = 0

\* C1 as amended: a line is a fatal UserException exactly when it holds no
\* ':' at all; every line before the first such line is stored under the
\* text before its first ':' ('/' replaced by '_') with everything after
\* that ':' as its value, further ':' included (the last line of a name
\* wins).
C1_LineWithoutColonIsFatal ==
    Queried =>
        LET n == FirstColonless - 1
        IN  /\ (config_exc = UnexpectedOutput) <=> (n < Len(query_output))
            /\ DOMAIN qt_configuration = {NameText(Stripped(i)) : i \in 1..n}
            /\ \A i \in 1..n :
                   (\A j \in (i + 1)..n :
                        NameText(Stripped(j)) # NameText(Stripped(i)))
                   => qt_configuration[NameText(Stripped(i))]
                          = ValueOf(Stripped(i))

\* A line with two ':' was read and stored, and the query went on.
C1_Witness ==
    /\ Queried
    /\ \E i \in 1..Len(query_output) : CountColons(Stripped(i)) = 2
    /\ "QT_INSTALL_PREFIX" \in DOMAIN qt_configuration
    /\ qt_configuration["QT_INSTALL_PREFIX"] = <<W("C"), Colon, Slash, W("Qt")>>
    /\ config_exc = NoExc

\* The reported version is "M.m.p", three runs of digits.
ThreePart(v) ==
    /\ Len(v) = 5
    /\ v[1].k = "num" /\ v[2] = Dot /\ v[3].k = "num" /\ v[4] = Dot
    /\ v[5].k = "num"

\* The version was packed from a report "M.m.p".
PackedThreePart ==
    /\ Queried
    /\ "qt_version" \in builder_attrs
    /\ "QT_VERSION" \in DOMAIN qt_configuration
    /\ ThreePart(qt_configuration["QT_VERSION"])

ReportedMajor == qt_configuration["QT_VERSION"][1].n
ReportedMinor == qt_configuration["QT_VERSION"][3].n
ReportedPatch == qt_configuration["QT_VERSION"][5].n

\* a | b on natural numbers.
RECURSIVE BitOr(_, _)
BitOr(a, b) ==
    IF a = 0 THEN b
    ELSE IF b = 0 THEN a
    ELSE (IF a % 2 = 1 \/ b % 2 = 1 THEN 1 ELSE 0)
             + 2 * BitOr(a \div 2, b \div 2)

\* (M<<16)|(m<<8)|p
OrPacked(M, m, p) == BitOr(BitOr(M * 65536, m * 256), p)

\* C2 as stated: for every version "M.m.p", components of 256 or more
\* included, qt_version is (M<<16)|(m<<8)|p.
C2_PackedIsBitwiseOr ==
    PackedThreePart =>
        qt_version = OrPacked(ReportedMajor, ReportedMinor, ReportedPatch)

\* C2 as amended: for every version "M.m.p" qt_version is
\* (M<<16)+(m<<8)+p, which is (M<<16)|(m<<8)|p when m and p are below 256.
C2_PackedIsSum ==
    PackedThreePart =>
        /\ qt_version = ReportedMajor * 65536 + ReportedMinor * 256
                            + ReportedPatch
        /\ (ReportedMinor < 256 /\ ReportedPatch < 256)
               => qt_version = OrPacked(ReportedMajor, ReportedMinor,
                                        ReportedPatch)

\* Qt "5.256.0" was reported and packed as 0x060000.
C2_Witness ==
    /\ PackedThreePart
    /\ qt_configuration["QT_VERSION"] = Dotted3(5, 256, 0)
    /\ qt_version = 393216

\* The loop over the components of the version ended without an exception.
VersionPacked ==
    /\ Queried
    /\ "qt_version" \in builder_attrs
    /\ config_exc.type \notin {"KeyError", "ValueError"}

\* C3: _get_qt_configuration raises the "Qt v5.6 or later is required"
\* UserException exactly when the packed version is below 0x050600, and then
\* qt_version_tag is not set; at or above 0x050600 it completes and sets
\* qt_version_tag.  For "M.m.p" with components below 256 these are exactly
\* the versions below 5.6.0.
C3_FloorRejection ==
    /\ VersionPacked =>
           /\ (config_exc = VersionTooOld) <=> (qt_version < 329216)
           /\ (qt_version < 329216) => "qt_version_tag" \notin builder_attrs
           /\ (qt_version >= 329216) =>
                  /\ "qt_version_tag" \in builder_attrs
                  /\ config_exc = NoExc
    /\ (/\ PackedThreePart
        /\ ReportedMajor < 256 /\ ReportedMinor < 256 /\ ReportedPatch < 256)
           => ((config_exc = VersionTooOld)
                  <=> (\/ ReportedMajor < 5
                       \/ (ReportedMajor = 5 /\ ReportedMinor < 6)))

\* Qt "5.5.255", the last version below the floor, was refused.
C3_Witness ==
    /\ PackedThreePart
    /\ qt_configuration["QT_VERSION"] = Dotted3(5, 5, 255)
    /\ config_exc = VersionTooOld
    /\ "qt_version_tag" \notin builder_attrs

\* The patch level the tag is to carry.
ClampedPatch(M, m, p) ==
    IF M > 5 \/ (M = 5 /\ m >= 13) THEN 0
    ELSE IF M = 5 /\ m = 12 THEN (IF p < 4 THEN p ELSE 4)
    ELSE p

\* C4: the tag is major_minor_patch with the patch forced to 0 from 5.13 on
\* (every major of 6 or more included), limited to 4 for 5.12 and unchanged
\* otherwise; major and minor are those of the version (its bytes in
\* qt_version, which are the reported M and m when the components are below
\* 256).
C4_TagClamping ==
    (Queried /\ "qt_version_tag" \in builder_attrs) =>
        LET major == (qt_version \div 65536) % 256
            minor == (qt_version \div 256) % 256
            patch == qt_version % 256
        IN  /\ qt_version_tag
                   = FormatTag(major, minor, ClampedPatch(major, minor, patch))
            /\ (/\ PackedThreePart
                /\ ReportedMajor < 256 /\ ReportedMinor < 256
                /\ ReportedPatch < 256)
                   => qt_version_tag
                          = FormatTag(ReportedMajor, ReportedMinor,
                                ClampedPatch(ReportedMajor, ReportedMinor,
                                             ReportedPatch))

\* Qt "5.12.5" was reported and tagged 5_12_4.
C4_Witness ==
    /\ PackedThreePart
    /\ qt_configuration["QT_VERSION"] = Dotted3(5, 12, 5)
    /\ qt_version_tag = "5_12_4"

\* The value of the last line of the output that reports `name`.
Reported(output, name) ==
    LET at == {i \in 1..Len(output) : NameText(Strip(output[i])) = name}
    IN  ValueOf(Strip(output[CHOOSE i \in at : \A j \in at : j <= i]))

\* C13: an apply_defaults that queried qmake and ended normally leaves a
\* spec given by the user as it is ('macx-xcode' included) and makes a spec
\* not given the QMAKE_SPEC qmake reported, with 'macx-clang' in the place
\* of 'macx-xcode'; qt_configuration['QMAKE_SPEC'] is the spec as reported.
C13_DefaultSpec ==
    [][(query_output = <<>> /\ query_output' # <<>> /\ config_exc' = NoExc) =>
          LET reported == Reported(query_output', "QMAKE_SPEC")
          IN  /\ spec = NoneValue =>
                     spec' = IF reported = <<W("macx-xcode")>>
                             THEN <<W("macx-clang")>>
                             ELSE reported
              /\ spec # NoneValue => spec' = spec
              /\ "QMAKE_SPEC" \in DOMAIN qt_configuration' =>
                     qt_configuration'["QMAKE_SPEC"] = reported
      ]_vars

\* qmake reported macx-xcode and no spec was given: the spec is macx-clang
\* and the configuration still holds macx-xcode.
C13_Witness ==
    /\ Queried
    /\ config_exc = NoExc
    /\ spec = <<W("macx-clang")>>
    /\ qt_configuration["QMAKE_SPEC"] = <<W("macx-xcode")>>

\* C14: apply_defaults ends normally or with a UserException or a
\* PyProjectOptionException: no other exception escapes it.
C14_OnlyUserDiagnostics ==
    config_exc.type \in {"none", "UserException", "PyProjectOptionException"}

----------------------------------------------------------------------------
(***************************************************************************)
(* Properties of the signal grouping (ExtSpec).                            *)
(***************************************************************************)

\* extension.signal_data of a class as a list ([] when there is none).
SignalData(k) ==
    IF class_ext[k] = <<>> \/ class_ext[k][1].signal_data = <<>> THEN <<>>
    ELSE class_ext[k][1].signal_data[1]

Range(list) == {list[i] : i \in 1..Len(list)}

\* The items of sub are items of list, in the order they have in list.
InOrderOf(sub, list) ==
    /\ Range(sub) \subseteq Range(list)
    /\ \A i, j \in 1..Len(sub) :
           i < j => FirstIndex(list, sub[i], 1) < FirstIndex(list, sub[j], 1)

\* The signal groups of signal_data one after the other.
RECURSIVE Flatten(_)
Flatten(data) ==
    IF data = <<>> THEN <<>> ELSE Head(data).signal_group \o Flatten(Tail(data))

\* C5: a call of function_group_complete_definition on a group of a class
\* leaves every function of the group in exactly one of the signal group it
\* appends to signal_data and the group itself, both in the order of the
\* original group and together as long as it, the signals in the former and
\* the others in the latter; without a signal nothing is appended.
C5_GroupPartition ==
    [][\A g \in Groups :
          (ScopeIsClass(g[1]) /\ completed'[g] = completed[g] + 1) =>
              LET old == function_group[g]
                  new == function_group'[g]
                  before == SignalData(g[1])
                  after == SignalData(g[1])'
                  appended == IF Len(after) = Len(before) + 1
                              THEN after[Len(after)].signal_group
                              ELSE <<>>
              IN  /\ \A f \in Range(old) :
                         (f \in Range(appended)) # (f \in Range(new))
                  /\ Len(appended) + Len(new) = Len(old)
                  /\ InOrderOf(appended, old)
                  /\ InOrderOf(new, old)
                  /\ Range(appended) = {f \in Range(old) : IsSignal(f)}
                  /\ (appended = <<>>) <=> (after = before)
                  /\ appended # <<>> =>
                         /\ SubSeq(after, 1, Len(before)) = before
                         /\ after[Len(after)].has_non_signals = (new # <<>>)
      ]_vars

\* Group a of the class held the functions 1, 2, 3 with 1 and 3 signals: its
\* completion appended (<<1, 3>>, has_non_signals) and left <<2>>.
C5_Witness ==
    /\ completed[<<"K", "a">>] = 1
    /\ declared = <<<<"K", "a">>, <<"K", "a">>, <<"K", "a">>>>
    /\ SignalData("K")
           = <<[signal_group |-> <<1, 3>>, has_non_signals |-> TRUE]>>
    /\ function_group[<<"K", "a">>] = <<2>>

\* No function is twice in signal_data, in one entry or in two.
NoSignalTwice ==
    \A k \in Classes :
        LET all == Flatten(SignalData(k))
        IN  \A i, j \in 1..Len(all) : all[i] = all[j] => i = j

\* C6: a further call of function_group_complete_definition on a group that
\* was already completed appends nothing to signal_data and removes nothing
\* from the group, and no signal is in more than one entry of signal_data
\* (nor twice in one).
C6_RemovedOnce ==
    /\ [][\A g \in Groups :
             (completed[g] >= 1 /\ completed'[g] = completed[g] + 1) =>
                 /\ class_ext' = class_ext
                 /\ function_group' = function_group]_vars
    /\ []NoSignalTwice

\* Group a was completed twice; its signals 1 and 2 are in signal_data once.
C6_Witness ==
    /\ completed[<<"K", "a">>] = 2
    /\ SignalData("K")
           = <<[signal_group |-> <<1, 2>>, has_non_signals |-> FALSE]>>
    /\ function_group[<<"K", "a">>] = <<>>

\* Three methods were declared in a `signals:` section of the class and the
\* groups they are in were completed.
ThreeSignalsCompleted ==
    /\ Len(declared) = 3
    /\ \A f \in 1..3 :
           /\ ScopeIsClass(declared[f][1])
           /\ declared_in[f] = "signals"
           /\ completed[declared[f]] >= 1

\* The entries of signal_data are in the order in which their groups were
\* first declared.
CompletedInDeclarationOrder ==
    LET data == SignalData("K")
    IN  \A i, j \in 1..Len(data) :
            i < j => data[i].signal_group[1] < data[j].signal_group[1]

\* C8 as stated: after `signals:`, three methods and the completion of their
\* groups (in the order of their first declarations) the three are signals,
\* are in signal_data in declaration order and are in no function group.
C8_SignalsInDeclarationOrder ==
    (ThreeSignalsCompleted /\ CompletedInDeclarationOrder) =>
        /\ \A f \in 1..3 : IsSignal(f)
        /\ Flatten(SignalData("K")) = <<1, 2, 3>>
        /\ \A g \in Groups : Range(function_group[g]) \cap {1, 2, 3} = {}

\* C8 as amended: the three are signals, each is once in signal_data, every
\* entry of signal_data holds the overloads of one name in declaration
\* order (the entries follow the order in which the groups are completed),
\* and none is left in a function group.
C8_SignalsGroupedByName ==
    ThreeSignalsCompleted =>
        LET data == SignalData("K")
            all == Flatten(data)
        IN  /\ \A f \in 1..3 : IsSignal(f) /\ release_gil[f]
            /\ Len(all) = 3 /\ Range(all) = {1, 2, 3}
            /\ \A e \in 1..Len(data) :
                   LET sg == data[e].signal_group
                   IN  /\ \A i, j \in 1..Len(sg) : i < j => sg[i] < sg[j]
                       /\ \A i, j \in 1..Len(sg) :
                              declared[sg[i]] = declared[sg[j]]
                       /\ ~data[e].has_non_signals
            /\ \A e1, e2 \in 1..Len(data) :
                   e1 # e2 => declared[data[e1].signal_group[1]]
                                  # declared[data[e2].signal_group[1]]
            /\ \A g \in Groups : Range(function_group[g]) \cap {1, 2, 3} = {}

\* a(), b() and a(int) were declared as signals: signal_data holds a's two
\* overloads, then b.
C8_Witness ==
    /\ ThreeSignalsCompleted
    /\ declared = <<<<"K", "a">>, <<"K", "b">>, <<"K", "a">>>>
    /\ Flatten(SignalData("K")) = <<1, 3, 2>>

----------------------------------------------------------------------------
(***************************************************************************)
(* Properties of the annotation and access specifier hooks.                *)
(***************************************************************************)

\* C7: argument_parse_annotation returns True for ScopesStripped, reporting
\* a diagnostic and leaving every argument's extension data as it is for a
\* value of 0 or less and storing exactly the value as scopes_stripped of
\* the argument for a greater one; for another name it returns False and
\* changes nothing.
C7_ScopesStripped ==
    [][\A a \in Arguments, n \in AnnotationNames, v \in AnnotationValues :
          (/\ last_call'.op = "argument_parse_annotation"
           /\ last_call'.args = <<a, n, v>>) =>
              IF n = "ScopesStripped"
              THEN /\ last_call'.ret = "True"
                   /\ v <= 0 => /\ Len(errors') = Len(errors) + 1
                                /\ argument_ext' = argument_ext
                   /\ v > 0 => /\ errors' = errors
                               /\ argument_ext' =
                                      [argument_ext EXCEPT
                                          ![a] = <<[scopes_stripped |-> v]>>]
              ELSE /\ last_call'.ret = "False"
                   /\ errors' = errors
                   /\ argument_ext' = argument_ext
      ]_vars

\* /ScopesStripped=0/ on argument 1 was refused with a diagnostic and left it
\* without extension data, after /ScopesStripped=2/ was stored on argument 2.
C7_Witness ==
    /\ last_call = Call("argument_parse_annotation",
                        <<1, "ScopesStripped", 0>>, "True", "none")
    /\ errors # <<>>
    /\ argument_ext[1] = <<>>
    /\ argument_ext[2] = <<[scopes_stripped |-> 2]>>

\* What C9 has class_parse_access_specifier return.
ExpectedAccess(primary, secondary) ==
    IF primary \in {"signals", "Q_SIGNALS"} /\ secondary = "None"
    THEN "public"
    ELSE IF /\ primary \in {"public", "protected", "private"}
            /\ secondary \in {"None", "slots", "Q_SLOTS"}
    THEN primary
    ELSE "None"

\* C9: class_parse_access_specifier returns 'public' for signals/Q_SIGNALS
\* without a secondary keyword, the primary keyword for public, protected
\* and private without a secondary keyword or with slots/Q_SLOTS, and None
\* for every other pair of recognised keywords, slots and Q_SLOTS as the
\* primary keyword included; it raises nothing.
C9_AccessSpecifierResult ==
    last_call.op = "class_parse_access_specifier" =>
        /\ last_call.exc = "none"
        /\ last_call.ret = ExpectedAccess(last_call.args[2], last_call.args[3])

\* functions_are_signals of a class (False for a class without extension
\* data, as function_complete_parse reads it).
FunctionsAreSignals(k) ==
    class_ext[k] # <<>> /\ class_ext[k][1].functions_are_signals

\* C18: a call of class_parse_access_specifier that is accepted (returns a
\* keyword) leaves functions_are_signals of the class True if its primary
\* keyword is signals or Q_SIGNALS and False if it is public, protected or
\* private; a call that returns None leaves the extension data of the class
\* as it was; and no other step changes the flag.  So the flag is True iff
\* the most recent accepted call had the primary keyword signals or
\* Q_SIGNALS.
C18_FunctionsAreSignalsTracked ==
    [][\A k \in Classes :
          IF /\ last_call'.op = "class_parse_access_specifier"
             /\ last_call'.args[1] = k
             /\ last_call'.exc = "none"
          THEN IF last_call'.ret # "None"
               THEN FunctionsAreSignals(k)'
                        = (last_call'.args[2] \in {"signals", "Q_SIGNALS"})
               ELSE class_ext'[k] = class_ext[k]
          ELSE FunctionsAreSignals(k)' = FunctionsAreSignals(k)
      ]_vars

\* In a Q_SIGNALS section the call (public, signals) was refused: the
\* functions of the class still are signals.
C18_Witness ==
    /\ last_call = Call("class_parse_access_specifier",
                        <<"K", "public", "signals">>, "None", "none")
    /\ section = "Q_SIGNALS"
    /\ FunctionsAreSignals("K")

\* C19: every function that is a signal when the definition of its group is
\* completed, by a signals section or by the keyword Q_SIGNAL, has had
\* set_function_release_gil called on it.
C19_SignalsReleaseGIL ==
    \A f \in 1..Len(declared) :
        (completed[declared[f]] >= 1 /\ IsSignal(f)) => release_gil[f]

\* The version of Qt that qmake reported is "M.m.p" with this M.
QtMajorIs(M) ==
    /\ "QT_VERSION" \in DOMAIN qt_configuration
    /\ qt_configuration["QT_VERSION"][1] = N(M)

\* C21: for Qt 5, a class on which /PyQtFlagsEnums/ was parsed has bit 0 of
\* its flags set, whether a /PyQtFlag/ was parsed before or after it; for
\* Qt 6 neither annotation is recognised on a class: the call returns False
\* and the flags stay 0.
C21_FlagsEnumsImpliesFlag ==
    \A k \in Classes :
        /\ (QtMajorIs(5) /\ class_ext[k] # <<>>) =>
               (class_ext[k][1].flags_enums # <<>>
                    => class_ext[k][1].flags % 2 = 1)
        /\ QtMajorIs(6) =>
               /\ class_ext[k] # <<>> =>
                      /\ class_ext[k][1].flags = 0
                      /\ class_ext[k][1].flags_enums = <<>>
               /\ (/\ last_call.op = "class_parse_annotation"
                   /\ last_call.args[2] \in {"PyQtFlag", "PyQtFlagsEnums"})
                      => last_call.ret = "False"

\* The places of an event in what build_project has done so far.
Places(event) == {n \in 1..Len(build_log) : build_log[n] = event}

\* The buildables that are modules.
Modules == {i \in 1..Len(buildables) :
                buildables[i] \in {"module", "static_module"}}

\* The Makefile qmake is to make from the top-level .pro file.
TopMakefile == <<"proj">> \o BuildDir \o <<"Makefile">>

\* C22: build_project keeps a fixed order.  When qmake is invoked the .pro
\* file of every module was written, then the inventory and the top-level
\* .pro file; qmake is invoked at most once, with -recursive, and exactly
\* once by the time the build gets to make or ends without an exception;
\* make is invoked at most once, only when the option is set, only after
\* qmake and only with the Makefile of the build directory in place; and
\* with a buildable of an unsupported type nothing is written at the top
\* level, no tool is run, and the build fails only with a UserException.
C22_BuildOrder ==
    /\ \A q \in Places("qmake") :
           /\ Cardinality({n \in Places("module_pro") : n < q})
                  = Cardinality(Modules)
           /\ \E t \in Places("top_pro") :
                  /\ t < q
                  /\ \A n \in Places("module_pro") : n < t
           /\ \E n \in Places("inventory") : n < q
           /\ \A i \in Modules :
                  <<"proj">> \o BuildDir
                      \o <<BuildableName(i), BuildableName(i) \o ".pro">>
                          \in files
    /\ Cardinality(Places("qmake")) <= 1
    /\ (build.pc \in {"make", "done"}) => Cardinality(Places("qmake")) = 1
    /\ (run_result.op = "run_qmake" /\ run_result.args # <<>>) =>
           \E n \in 1..Len(run_result.args) :
               run_result.args[n] = "-recursive"
    /\ Cardinality(Places("make")) <= 1
    /\ \A m \in Places("make") :
           /\ make_option
           /\ \E q \in Places("qmake") : q < m
           /\ TopMakefile \in files
    /\ (build.pc = "done" /\ make_option) => Places("make") # {}
    /\ (\E i \in 1..Len(buildables) : buildables[i] = "other") =>
           /\ Places("inventory") = {}
           /\ Places("top_pro") = {}
           /\ Places("qmake") = {}
           /\ Places("make") = {}
           /\ run_result.op = "none"
           /\ build.pc \in {"loop", "failed"}
           /\ build.pc = "failed" => build.exc = "UserException"

\* A build of a module and of a plain buildable that ran qmake, then make.
C22_Witness ==
    /\ build.pc = "done"
    /\ build_log = <<"module_pro", "installables", "inventory", "top_pro",
                     "qmake", "make">>
    /\ TopMakefile \in files

\* A project with a buildable of an unsupported type after a module: the
\* build has failed.
C22_Unsupported ==
    /\ build.pc = "failed"
    /\ buildables = <<"module", "other">>
    /\ build_log = <<"module_pro">>

----------------------------------------------------------------------------
(***************************************************************************)
(* Properties of the generated code (WriteSpec).                           *)
(***************************************************************************)

\* The structure of class K was written, with a signals table.
StructureWritten ==
    /\ last_call.op = "class_write_extension_structure"
    /\ last_call.ret = "True"

TableWritten == StructureWritten /\ SignalData("K") # <<>>

\* The entries of the signals table, and the signals of signal_data, in
\* order.
Entries == SelectSeq(written, LAMBDA item : item.kind = "entry")
Signals == Flatten(SignalData("K"))

\* The signal has %MethodCode or an optional argument.
HasMethodCodeOrOptional(signal) ==
    \/ method_code[signal]
    \/ \E a \in Range(cpp_arguments[signal]) : arg_optional[a]

\* C15: the i-th entry of the signals table is the entry of the i-th signal
\* of signal_data, and its emitter is a reference to bindings written for
\* the group of the signal if the signal has %MethodCode or an optional
\* argument and SIP_NULLPTR if it has neither.
C15_EmitterField ==
    TableWritten =>
        /\ Len(Entries) = Len(Signals)
        /\ \A i \in 1..Len(Entries) :
               /\ Entries[i].f[1] = declared[Signals[i]][2]
               /\ (Entries[i].f[7] # "SIP_NULLPTR")
                      <=> HasMethodCodeOrOptional(Signals[i])
               /\ Entries[i].f[7] # "SIP_NULLPTR" =>
                      \E j \in 1..Len(written) :
                          written[j] = Item("bindings", <<Entries[i].f[7]>>)

\* Signal 1 has an optional argument and no %MethodCode and has an emitter;
\* another signal of the table has none.
C15_Witness ==
    /\ TableWritten
    /\ \E i, j \in 1..Len(Entries) :
           /\ Signals[i] = 1 /\ ~method_code[1]
           /\ Entries[i].f[7] = "pyqt_signals_meth_K_" \o declared[1][2]
           /\ Entries[j].f[7] = "SIP_NULLPTR"

\* The stripping depth of an argument: the value of its /ScopesStripped/,
\* -1 without one.
Depth(a) ==
    IF argument_ext[a] = <<>> THEN -1 ELSE argument_ext[a][1].scopes_stripped

\* C16 as stated: the entry of a signal has the suffix '|(...)' exactly
\* when two of its arguments differ in stripping depth.
C16_SuffixWhenDepthsDiffer ==
    TableWritten =>
        \A i \in 1..Len(Entries) :
            (Entries[i].f[3] # "")
                <=> \E a, b \in Range(cpp_arguments[Signals[i]]) :
                        Depth(a) # Depth(b)

\* C16 as amended: the entry of a signal has the suffix '|(...)' exactly
\* when at least one of its arguments has a /ScopesStripped/ annotation,
\* whether or not the depths of the arguments differ.
C16_SuffixWhenAnnotated ==
    TableWritten =>
        \A i \in 1..Len(Entries) :
            (Entries[i].f[3] # "")
                <=> \E a \in Range(cpp_arguments[Signals[i]]) :
                        argument_ext[a] # <<>>

\* Both arguments of the signal have /ScopesStripped=1/ and its entry has
\* the suffix.
C16_Witness ==
    /\ TableWritten
    /\ argument_ext[1] = <<[scopes_stripped |-> 1]>>
    /\ \A a \in Arguments : argument_ext[a] = argument_ext[1]
    /\ Len(Entries) = 1
    /\ Entries[1].f[3] # ""

\* The texts of the fields of the structure written, in order.
StructureFields ==
    LET fields == SelectSeq(written, LAMBDA item : item.kind = "field")
    IN  [i \in 1..Len(fields) |-> fields[i].f[1]]

\* C17: class_write_extension_structure returns False and writes nothing
\* for a class without extension data; for any other class it returns True
\* and writes the fields flags (Qt 5 only), static meta-object, signals
\* table and interface, in this order: the meta-object is
\* '&<class>::staticMetaObject' iff the class is a QObject without
\* /PyQtNoQMetaObject/, the signals table is not null iff the class has a
\* signal group and the interface is not null iff /PyQtInterface/ was given.
C17_StructureLayout ==
    last_call.op = "class_write_extension_structure" =>
        IF class_ext["K"] = <<>>
        THEN last_call.ret = "False" /\ written = <<>>
        ELSE LET extension == class_ext["K"][1]
                 qt5 == ReportedMajor = 5
                 n == IF qt5 THEN 1 ELSE 0
                 fields == StructureFields
             IN  /\ last_call.ret = "True"
                 /\ Len(fields) = n + 3
                 /\ qt5 => fields[1] = ToString(extension.flags)
                 /\ fields[n + 1] =
                        IF extension.is_qobject /\ ~extension.no_qmetaobject
                        THEN "&NS::K::staticMetaObject"
                        ELSE "SIP_NULLPTR"
                 /\ (fields[n + 2] # "SIP_NULLPTR")
                        <=> (Len(SignalData("K")) >= 1)
                 /\ (fields[n + 3] # "SIP_NULLPTR")
                        <=> (extension.interface # <<>>)
                 /\ written[Len(written)].kind = "end"
                 /\ \A i \in 1..(n + 3) :
                        written[Len(written) - (n + 3) + i - 1].kind = "field"
                 /\ written[Len(written) - (n + 4)].kind = "structure"

\* A QObject with /PyQtNoQMetaObject/ and /PyQtInterface/ and without
\* signals, for Qt 5: the fields are the flags, null, null and the
\* interface.
C17_Witness ==
    /\ StructureWritten
    /\ class_ext["K"] # <<>>
    /\ class_ext["K"][1].is_qobject /\ class_ext["K"][1].no_qmetaobject
    /\ StructureFields
           = <<"1", "SIP_NULLPTR", "SIP_NULLPTR", "\"org.qt.Iface\"">>

\* The position in Signals of the first signal of the e-th entry of
\* signal_data.
RECURSIVE FirstOf(_)
FirstOf(e) ==
    IF e = 1 THEN 1 ELSE FirstOf(e - 1) + Len(SignalData("K")[e - 1].signal_group)

\* C20: the table holds one entry for each signal of signal_data, in the
\* order of signal_data, then one terminator with every field null, and
\* nothing else; the entry of the first signal of a group holds the
\* reference to the docstring written for the group, its auto-docstring
\* flag and the table of the non-signal overloads, which is not null iff
\* non-signal overloads were left in the function group; the entry of every
\* later signal of the group holds SIP_NULLPTR, 0 and SIP_NULLPTR.
C20_TableEntries ==
    TableWritten =>
        LET data == SignalData("K")
            docs == SelectSeq(written, LAMBDA item : item.kind = "docstring")
            t == CHOOSE i \in 1..Len(written) : written[i].kind = "table"
            n == Len(Signals)
        IN  /\ Cardinality({i \in 1..Len(written) :
                               written[i].kind = "table"}) = 1
            /\ Len(Entries) = n
            /\ \A i \in 1..n :
                   /\ written[t + i] = Entries[i]
                   /\ Entries[i].f[1] = declared[Signals[i]][2]
            /\ written[t + n + 1]
                   = Item("terminator",
                          <<"SIP_NULLPTR", "SIP_NULLPTR", "0", "SIP_NULLPTR",
                            "SIP_NULLPTR">>)
            /\ Cardinality({i \in 1..Len(written) :
                               written[i].kind = "terminator"}) = 1
            /\ Len(docs) = Len(data)
            /\ \A e \in 1..Len(data) :
                   LET first == Entries[FirstOf(e)]
                       group == declared[data[e].signal_group[1]]
                   IN  /\ first.f[4] = docs[e].f[1]
                       /\ first.f[4] # "SIP_NULLPTR"
                       /\ first.f[5] = IF docstring_auto[group] THEN "1"
                                                                 ELSE "0"
                       /\ (first.f[6] # "SIP_NULLPTR")
                              <=> (function_group[group] # <<>>)
                       /\ \A i \in 2..Len(data[e].signal_group) :
                              LET later == Entries[FirstOf(e) + i - 1]
                              IN  /\ later.f[4] = "SIP_NULLPTR"
                                  /\ later.f[5] = "0"
                                  /\ later.f[6] = "SIP_NULLPTR"

\* Group a holds two signals and a non-signal overload: the first entry
\* holds the docstring, the flag and the method table of the group, the
\* second none of them, and the terminator follows.
C20_Witness ==
    /\ TableWritten
    /\ Len(SignalData("K")) = 1
    /\ Len(SignalData("K")[1].signal_group) = 2
    /\ Len(Entries) = 2
    /\ SignalData("K")[1].has_non_signals
    /\ Entries[1].f[4] = "pyqt_signals_doc_K_a"
    /\ Entries[1].f[5] = "1"
    /\ Entries[1].f[6] = "meth_K_a"
    /\ Entries[2].f[4] = "SIP_NULLPTR"
    /\ Entries[2].f[5] = "0"
    /\ Entries[2].f[6] = "SIP_NULLPTR"

----------------------------------------------------------------------------
(***************************************************************************)
(* Properties of the builder running qmake and make (RunSpec).             *)
(***************************************************************************)

\* C10: when run_qmake or _run_project_make has ended, by return or by an
\* exception, the current directory is the one it was entered with.
C10_CwdRestored ==
    run_result.op # "none" => cwd = run_result.entry_cwd

\* The makefile the command line of a run_qmake names: the one after -o, or
\* 'Makefile'.
ExpectedMakefile(args) ==
    IF \E i \in 1..(Len(args) - 1) : args[i] = "-o"
    THEN args[(CHOOSE i \in 1..(Len(args) - 1) : args[i] = "-o") + 1]
    ELSE "Makefile"

\* run_qmake ran qmake.
QmakeRan == run_result.op = "run_qmake" /\ run_result.args # <<>>

C12_NonFatalNeverRaises ==
    (run_result.op = "run_make" /\ ~run_result.fatal) =>
        /\ run_result.exc = "none"
        /\ run_result.target \notin files => run_result.ret = "None"

============================================================================
